---- MODULE Spec2Model ----
(***************************************************************************)
(* Contractor / license entity resolution of the Minneapolis permits       *)
(* dashboard: src/match_plumber_licenses.py.                               *)
(*                                                                         *)
(* Strings are sequences of one-character strings, so that upper-casing,   *)
(* punctuation stripping, str.replace, str.split, substring tests and      *)
(* difflib.SequenceMatcher are computed character by character.  A float   *)
(* score is an exact fraction in lowest terms, [n |-> num, d |-> den].     *)
(***************************************************************************)
EXTENDS Integers, Sequences, FiniteSets, TLC

VARIABLES
    arg,          \* arguments of the pure function under test
    ret,          \* its return value and locals at return, once pc = "return"
    df,           \* match_and_update_contacts: the permit rows
    license_df,   \* match_and_update_contacts: the license records
    idx,          \* number of permit rows the matching loop has processed
    best_match,   \* match_and_update_contacts: the local best_match
    best_score,   \* match_and_update_contacts: the local best_score
    match_stats,  \* match_and_update_contacts: the counters
    pc            \* position in match_and_update_contacts, or "call" / "return"

vars == <<arg, ret, df, license_df, idx, best_match, best_score, match_stats, pc>>

(***************************************************************************)
(* Python values                                                           *)
(***************************************************************************)
\* None / NaN in a column that otherwise holds text
NaN == <<"NaN">>
\* None in a license contact field
NoneVal == "None"
Pending == <<"pending">>

Lower == <<"a", "b", "c", "d", "e", "f", "g", "h", "i", "j", "k", "l", "m",
           "n", "o", "p", "q", "r", "s", "t", "u", "v", "w", "x", "y", "z">>
Upper == <<"A", "B", "C", "D", "E", "F", "G", "H", "I", "J", "K", "L", "M",
           "N", "O", "P", "Q", "R", "S", "T", "U", "V", "W", "X", "Y", "Z">>
Digits == <<"0", "1", "2", "3", "4", "5", "6", "7", "8", "9">>

\* str.upper on one ASCII character
upper_char(c) ==
    IF \E i \in 1..26 : Lower[i] = c
    THEN Upper[CHOOSE i \in 1..26 : Lower[i] = c]
    ELSE c

str_upper(s) == [i \in 1..Len(s) |-> upper_char(s[i])]

\* s[i:i+len(old)] == old
StartsWithAt(s, i, old) ==
    /\ i + Len(old) - 1 <= Len(s)
    /\ \A k \in 1..Len(old) : s[i + k - 1] = old[k]

RECURSIVE ReplaceFrom(_, _, _, _)
ReplaceFrom(s, i, old, new) ==
    IF i > Len(s) THEN <<>>
    ELSE IF StartsWithAt(s, i, old)
         THEN new \o ReplaceFrom(s, i + Len(old), old, new)
         ELSE <<s[i]>> \o ReplaceFrom(s, i + 1, old, new)

\* str.replace(old, new), old non-empty: every non-overlapping occurrence,
\* found left to right
str_replace(s, old, new) == ReplaceFrom(s, 1, old, new)

RECURSIVE SplitFrom(_, _, _)
SplitFrom(s, i, cur) ==
    IF i > Len(s) THEN (IF cur = <<>> THEN <<>> ELSE <<cur>>)
    ELSE IF s[i] = " "
         THEN (IF cur = <<>> THEN SplitFrom(s, i + 1, <<>>)
                             ELSE <<cur>> \o SplitFrom(s, i + 1, <<>>))
         ELSE SplitFrom(s, i + 1, Append(cur, s[i]))

\* str.split(): the maximal runs of non-blank characters
str_split(s) == SplitFrom(s, 1, <<>>)

RECURSIVE str_join(_, _)
\* sep.join(words)
str_join(sep, words) ==
    IF words = <<>> THEN <<>>
    ELSE IF Len(words) = 1 THEN words[1]
    ELSE words[1] \o sep \o str_join(sep, Tail(words))

\* str.strip()
str_strip(s) ==
    IF \A i \in 1..Len(s) : s[i] = " " THEN <<>>
    ELSE LET lo == CHOOSE i \in 1..Len(s) :
                      s[i] # " " /\ \A k \in 1..(i - 1) : s[k] = " "
             hi == CHOOSE i \in 1..Len(s) :
                      s[i] # " " /\ \A k \in (i + 1)..Len(s) : s[k] = " "
         IN  SubSeq(s, lo, hi)

\* x in y, for strings
IsSubstring(x, y) == \E i \in 1..(Len(y) + 1) : StartsWithAt(y, i, x)

(***************************************************************************)
(* normalize_company_name                                                  *)
(***************************************************************************)
\* the character class [.,'"&-] of the punctuation pattern
Punctuation == {".", ",", "'", "\"", "&", "-"}

\* a variant that deletes the punctuation instead of blanking it
strip_punctuation_deleting(s) == SelectSeq(s, LAMBDA c : c \notin Punctuation)

\* re.sub(r'[.,\'"&-]', ' ', name)
strip_punctuation(s) ==
    [i \in 1..Len(s) |-> IF s[i] \in Punctuation THEN " " ELSE s[i]]

\* the replacements dict, in insertion order
replacements ==
    << << <<" ", "I", "N", "C", "O", "R", "P", "O", "R", "A", "T", "E", "D">>,
          <<" ", "I", "N", "C">> >>,
       << <<" ", "C", "O", "R", "P", "O", "R", "A", "T", "I", "O", "N">>,
          <<" ", "C", "O", "R", "P">> >>,
       << <<" ", "L", "I", "M", "I", "T", "E", "D", " ", "L", "I", "A", "B",
            "I", "L", "I", "T", "Y", " ", "C", "O", "M", "P", "A", "N", "Y">>,
          <<" ", "L", "L", "C">> >>,
       << <<" ", "L", "I", "M", "I", "T", "E", "D">>,
          <<" ", "L", "T", "D">> >>,
       << <<" ", "C", "O", "M", "P", "A", "N", "Y">>,
          <<" ", "C", "O">> >>,
       << <<" ", "A", "N", "D", " ">>,
          <<" ", "&", " ">> >>,
       << <<"P", "L", "U", "M", "B", "I", "N", "G">>,
          <<"P", "L", "U", "M", "B", "I", "N", "G">> >>,
       << <<"H", "E", "A", "T", "I", "N", "G">>,
          <<"H", "E", "A", "T", "I", "N", "G">> >>,
       << <<"M", "E", "C", "H", "A", "N", "I", "C", "A", "L">>,
          <<"M", "E", "C", "H", "A", "N", "I", "C", "A", "L">> >> >>

RECURSIVE apply_replacements(_, _)
\* for old, new in replacements.items(): name = name.replace(old, new)
apply_replacements(s, k) ==
    IF k > Len(replacements) THEN s
    ELSE apply_replacements(
             str_replace(s, replacements[k][1], replacements[k][2]), k + 1)

normalize_company_name(name) ==
    IF name = NaN THEN <<>>
    ELSE str_join(<<" ">>,
             str_split(apply_replacements(strip_punctuation(str_upper(name)), 1)))

(***************************************************************************)
(* Scores: exact fractions, as the floats 2.0*matches/length, 0.85, 0.9    *)
(***************************************************************************)
RECURSIVE GCD(_, _)
GCD(x, y) == IF y = 0 THEN x ELSE GCD(y, x % y)

\* the fraction num/den in lowest terms
Frac(num, den) ==
    LET g == GCD(num, den) IN [n |-> num \div g, d |-> den \div g]

Zero == [n |-> 0, d |-> 1]
One == [n |-> 1, d |-> 1]

Less(x, y) == x.n * y.d < y.n * x.d
GreaterEq(x, y) == ~Less(x, y)
Greater(x, y) == Less(y, x)
FracMax(x, y) == IF Less(x, y) THEN y ELSE x
\* the largest fraction of a non-empty set
MaxOf(S) == CHOOSE x \in S : \A y \in S : GreaterEq(x, y)

\* threshold=0.85, the default argument of fuzzy_match_companies
Threshold == [n |-> 17, d |-> 20]
\* a variant with a boost of 0.8
ContainmentScore_low == [n |-> 4, d |-> 5]
\* the 0.9 of the containment boost
ContainmentScore == [n |-> 9, d |-> 10]
\* a variant that accepts a core-name ratio of 0.3
CoreThreshold_low == [n |-> 3, d |-> 10]
\* the 0.9 that the core-name ratio must reach
CoreThreshold == [n |-> 9, d |-> 10]

(***************************************************************************)
(* difflib.SequenceMatcher(None, a, b).ratio(); no junk, and autojunk has  *)
(* no effect on strings shorter than 200 characters.  Positions are        *)
(* 1-based and ranges inclusive: Python's a[alo:ahi] is a[alo+1..ahi].     *)
(***************************************************************************)
RECURSIVE RunLen(_, _, _, _, _, _)
\* length of the common block of a and b that starts at a[i], b[j] and
\* stays inside a[..ahi], b[..bhi]
RunLen(a, b, i, j, ahi, bhi) ==
    IF i <= ahi /\ j <= bhi /\ a[i] = b[j]
    THEN 1 + RunLen(a, b, i + 1, j + 1, ahi, bhi)
    ELSE 0

\* SequenceMatcher.find_longest_match: the longest block common to
\* a[alo..ahi] and b[blo..bhi]; of the longest blocks the one starting
\* earliest in a, and of those the one starting earliest in b
find_longest_match(a, b, alo, ahi, blo, bhi) ==
    LET size == [i \in alo..ahi, j \in blo..bhi |-> RunLen(a, b, i, j, ahi, bhi)]
        sizes == {size[i, j] : i \in alo..ahi, j \in blo..bhi}
        bestsize == CHOOSE k \in sizes : \A m \in sizes : m <= k
        besti == CHOOSE i \in alo..ahi :
                     /\ \E j \in blo..bhi : size[i, j] = bestsize
                     /\ \A i2 \in alo..(i - 1) : \A j \in blo..bhi : size[i2, j] # bestsize
        bestj == CHOOSE j \in blo..bhi :
                     /\ size[besti, j] = bestsize
                     /\ \A j2 \in blo..(j - 1) : size[besti, j2] # bestsize
    IN  IF bestsize = 0 THEN [i |-> alo, j |-> blo, k |-> 0]
        ELSE [i |-> besti, j |-> bestj, k |-> bestsize]

RECURSIVE matching_total(_, _, _, _, _, _)
\* SequenceMatcher.get_matching_blocks, summed: the longest block, then the
\* same to the left of it and to the right of it
matching_total(a, b, alo, ahi, blo, bhi) ==
    IF alo > ahi \/ blo > bhi THEN 0
    ELSE LET m == find_longest_match(a, b, alo, ahi, blo, bhi)
         IN  IF m.k = 0 THEN 0
             ELSE m.k
                  + (IF alo < m.i /\ blo < m.j
                     THEN matching_total(a, b, alo, m.i - 1, blo, m.j - 1)
                     ELSE 0)
                  + (IF m.i + m.k <= ahi /\ m.j + m.k <= bhi
                     THEN matching_total(a, b, m.i + m.k, ahi, m.j + m.k, bhi)
                     ELSE 0)

\* SequenceMatcher(None, a, b).ratio() = 2.0*matches/(len(a)+len(b)), 1.0 when
\* both are empty
ratio(a, b) ==
    IF Len(a) + Len(b) = 0 THEN One
    ELSE Frac(2 * matching_total(a, b, 1, Len(a), 1, Len(b)), Len(a) + Len(b))

(***************************************************************************)
(* fuzzy_match_companies                                                   *)
(***************************************************************************)
core_words ==
    << <<"I", "N", "C">>,
       <<"L", "L", "C">>,
       <<"C", "O", "R", "P">>,
       <<"L", "T", "D">>,
       <<"C", "O">>,
       <<"C", "O", "M", "P", "A", "N", "Y">>,
       <<"C", "O", "R", "P", "O", "R", "A", "T", "I", "O", "N">>,
       <<"L", "I", "M", "I", "T", "E", "D">> >>

\* one round of the core-name loop: core.replace(word, '').strip()
remove_core_word(core, word) == str_strip(str_replace(core, word, <<>>))

RECURSIVE core_name_from(_, _)
core_name_from(core, k) ==
    IF k > Len(core_words) THEN core
    ELSE core_name_from(remove_core_word(core, core_words[k]), k + 1)

\* permit_core / license_core after the loop over core_words
core_name(norm) == core_name_from(norm, 1)

\* a local that the call never assigned
NoScore == [n |-> -1, d |-> 1]

\* similarity = max(similarity, 0.9) when one name contains the other
containment_boost(seq_ratio, contained) ==
    IF contained THEN FracMax(seq_ratio, ContainmentScore) ELSE seq_ratio

\* the locals of fuzzy_match_companies at a return; path names the return
\* statement taken, NoScore and NaN stand for a local never assigned
Locals(np, nl, sr, sim, permit_core, license_core, cs, path, is_match, score) ==
    [norm_permit |-> np, norm_license |-> nl,
     seq_ratio |-> sr, similarity |-> sim,
     permit_core |-> permit_core, license_core |-> license_core,
     core_similarity |-> cs,
     path |-> path, is_match |-> is_match, score |-> score]

\* if core_similarity >= 0.9: return True, core_similarity;
\* else return False, similarity
fuzzy_core_ratio(np, nl, sr, sim, permit_core, license_core, core_similarity) ==
    IF GreaterEq(core_similarity, CoreThreshold)
    THEN Locals(np, nl, sr, sim, permit_core, license_core, core_similarity,
                "core", TRUE, core_similarity)
    ELSE Locals(np, nl, sr, sim, permit_core, license_core, core_similarity,
                "core_rejected", FALSE, sim)

\* if permit_core and license_core: ...; return False, similarity
fuzzy_core(np, nl, sr, sim, permit_core, license_core) ==
    IF permit_core # <<>> /\ license_core # <<>>
    THEN fuzzy_core_ratio(np, nl, sr, sim, permit_core, license_core,
                          ratio(permit_core, license_core))
    ELSE Locals(np, nl, sr, sim, permit_core, license_core, NoScore,
                "no_core", FALSE, sim)

\* if similarity >= threshold: return True, similarity; else the core names
fuzzy_threshold(np, nl, sr, contained, sim) ==
    IF GreaterEq(sim, Threshold)
    THEN Locals(np, nl, sr, sim, NaN, NaN, NoScore,
                IF contained THEN "contained" ELSE "similar", TRUE, sim)
    ELSE fuzzy_core(np, nl, sr, sim, core_name(np), core_name(nl))

\* similarity = max(similarity, 0.9) on containment, then the threshold
fuzzy_similarity(np, nl, sr, contained) ==
    fuzzy_threshold(np, nl, sr, contained, containment_boost(sr, contained))

\* if norm_permit == norm_license: return True, 1.0; else the ratio and the
\* containment test
fuzzy_normalized(np, nl) ==
    IF np = nl
    THEN Locals(np, nl, NoScore, NoScore, NaN, NaN, NoScore, "exact", TRUE, One)
    ELSE fuzzy_similarity(np, nl, ratio(np, nl),
                          IsSubstring(np, nl) \/ IsSubstring(nl, np))

fuzzy_locals(permit_name, license_name) ==
    fuzzy_normalized(normalize_company_name(permit_name),
                     normalize_company_name(license_name))

\* the returned pair (is_match, score)
returned(locals) == [is_match |-> locals.is_match, score |-> locals.score]

fuzzy_match_companies(permit_name, license_name) ==
    returned(fuzzy_locals(permit_name, license_name))

(***************************************************************************)
(* Inputs: company names built from a few words                            *)
(***************************************************************************)
MaxNormWords == 3
MaxPairWords == 2
MaxRows == 2
MaxLicenses == 2

\* the names of at most m words of V, separated by one blank
NamesOver(V, m) ==
    {str_join(<<" ">>, ws) : ws \in UNION {[1..k -> V] : k \in 0..m}}

NormVocab ==
    { <<"B", "o", "b", "'", "s">>,
      <<"P", "l", "u", "m", "b", "i", "n", "g", ",">>,
      <<"I", "n", "c", ".">>,
      <<"A", "N", "D">>,
      <<"C", "o", "m", "p", "a", "n", "y">> }

PairVocab ==
    { <<"A">>, <<"B">>, <<"I", "n", "c", ".">>, <<"L", "L", "C">>,
      <<"C", "O", "S", "T", "C", "O">> }

\* "Bob's Plumbing, Inc."
BobsPlumbingInc ==
    <<"B", "o", "b", "'", "s", " ", "P", "l", "u", "m", "b", "i", "n", "g", ",",
      " ", "I", "n", "c", ".">>

NormNames == NamesOver(NormVocab, MaxNormWords) \cup {NaN}
PairNames == NamesOver(PairVocab, MaxPairWords)

\* the values of the idle part of the state
NoLicense == [license_company |-> NaN, license_phone |-> NoneVal,
              license_email |-> NoneVal]
NoStats == [exact_matches |-> 0, fuzzy_matches |-> 0, no_matches |-> 0,
            phone_added |-> 0, email_added |-> 0]

PipelineIdle ==
    /\ df = <<>>
    /\ license_df = <<>>
    /\ idx = 0
    /\ best_match = NoLicense
    /\ best_score = Zero
    /\ match_stats = NoStats

(***************************************************************************)
(* normalize_company_name applied to a name, and to its own result         *)
(***************************************************************************)
InitNormalize ==
    /\ arg \in NormNames
    /\ ret = Pending
    /\ pc = "call"
    /\ PipelineIdle

Normalize ==
    /\ pc = "call"
    /\ arg \in NormNames
    /\ ret' = [once |-> normalize_company_name(arg),
               twice |-> normalize_company_name(normalize_company_name(arg))]
    /\ pc' = "return"
    /\ UNCHANGED <<arg, df, license_df, idx, best_match, best_score, match_stats>>

NextNormalize == Normalize

SpecNormalize == InitNormalize /\ [][NextNormalize]_vars

(***************************************************************************)
(* fuzzy_match_companies applied to a pair of names                        *)
(***************************************************************************)
InitScore ==
    /\ arg \in (PairNames \cup {NaN}) \X PairNames
    /\ ret = Pending
    /\ pc = "call"
    /\ PipelineIdle

Score ==
    /\ pc = "call"
    /\ arg \in (PairNames \cup {NaN}) \X PairNames
    /\ ret' = fuzzy_locals(arg[1], arg[2])
    /\ pc' = "return"
    /\ UNCHANGED <<arg, df, license_df, idx, best_match, best_score, match_stats>>

NextScore == Score

SpecScore == InitScore /\ [][NextScore]_vars

(***************************************************************************)
(* match_and_update_contacts: the matching loop                            *)
(***************************************************************************)
\* f"{best_score:.2f}": the score rounded to hundredths (a tie goes to the
\* even hundredth; 0.875 is the only tie that names shorter than 100
\* characters can score, and it is exact in binary), as the text d.dd
format_2f(x) ==
    LET q == (100 * x.n) \div x.d
        r == (100 * x.n) % x.d
        h == IF 2 * r > x.d THEN q + 1
             ELSE IF 2 * r < x.d THEN q
             ELSE IF q % 2 = 0 THEN q ELSE q + 1
    IN  <<Digits[(h \div 100) + 1], ".", Digits[((h \div 10) % 10) + 1],
          Digits[(h % 10) + 1]>>

PermitCompanies ==
    { NaN,
      <<"A", " ", "I", "n", "c", ".">>,
      <<"A", " ", "C", "O", "S", "T", "C", "O">> }

LicenseRecords ==
    { [license_company |-> <<"A", " ", "L", "L", "C">>,
       license_phone |-> "612-555-0101", license_email |-> NoneVal],
      [license_company |-> <<"A", " ", "I", "N", "C">>,
       license_phone |-> NoneVal, license_email |-> "info@a.com"],
      [license_company |-> <<"A", " ", "I", "N", "C">>,
       license_phone |-> "612-555-0102", license_email |-> "office@a.com"],
      [license_company |-> <<"B", " ", "C", "O", "S", "T", "C", "O">>,
       license_phone |-> "612-555-0103", license_email |-> "b@costco.com"],
      [license_company |-> <<"C", "O", "S", "T", "C", "O">>,
       license_phone |-> "612-555-0104", license_email |-> NoneVal] }

\* a permit row as the loop finds it: the tracking columns are None
NewRow(company) ==
    [Company_Name |-> company,
     Matched_License_Company |-> NaN,
     Match_Confidence |-> NaN,
     License_Phone |-> NoneVal,
     License_Email |-> NoneVal]

Init ==
    /\ arg = Pending
    /\ ret = Pending
    /\ df \in {[i \in 1..Len(c) |-> NewRow(c[i])] :
                  c \in UNION {[1..k -> PermitCompanies] : k \in 1..MaxRows}}
    /\ license_df \in UNION {[1..k -> LicenseRecords] : k \in 0..MaxLicenses}
    /\ idx = 0
    /\ best_match = NoLicense
    /\ best_score = Zero
    /\ match_stats = NoStats
    /\ pc = "match"

\* a variant that takes every matching record, so that the last match wins
takes_over_any_match(is_match, score, best) == is_match

\* a variant that also takes a record over an equal score
takes_over_on_tie(is_match, score, best) == is_match /\ GreaterEq(score, best)

\* if is_match and score > best_score
takes_over(is_match, score, best) == is_match /\ Greater(score, best)

RECURSIVE scan_licenses(_, _, _, _, _)
\* one round of the inner loop: record k, scored f, against the best so far
scan_step(permit_company, licenses, k, match, score, f) ==
    IF takes_over(f.is_match, f.score, score)
    THEN scan_licenses(permit_company, licenses, k + 1, licenses[k], f.score)
    ELSE scan_licenses(permit_company, licenses, k + 1, match, score)

\* the inner loop over license_df.iterrows(), from record k on
scan_licenses(permit_company, licenses, k, match, score) ==
    IF k > Len(licenses) THEN [best_match |-> match, best_score |-> score]
    ELSE scan_step(permit_company, licenses, k, match, score,
             fuzzy_match_companies(permit_company, licenses[k].license_company))

\* a variant that counts every score of 0.9 and more as exact
counts_exact_from_0_9(score) == GreaterEq(score, [n |-> 9, d |-> 10])

\* if best_score == 1.0
counts_exact(score) == score = One

\* the truth value of a license contact field
Truthy(v) == v # NoneVal

\* if best_match is not None: the tracking columns of the row
updated_row(row, m, score) ==
    IF m # NoLicense
    THEN [row EXCEPT
            !.Matched_License_Company = m.license_company,
            !.Match_Confidence = format_2f(score),
            !.License_Phone = IF Truthy(m.license_phone) THEN m.license_phone ELSE @,
            !.License_Email = IF Truthy(m.license_email) THEN m.license_email ELSE @]
    ELSE row

\* a variant that leaves no_matches alone when a row finds no match
updated_stats_matched_only(stats, m, score) ==
    IF m # NoLicense
    THEN [stats EXCEPT
            !.phone_added = IF Truthy(m.license_phone) THEN @ + 1 ELSE @,
            !.email_added = IF Truthy(m.license_email) THEN @ + 1 ELSE @,
            !.exact_matches = IF counts_exact(score) THEN @ + 1 ELSE @,
            !.fuzzy_matches = IF counts_exact(score) THEN @ ELSE @ + 1]
    ELSE stats

\* if best_match is not None: ... else: the counters
updated_stats(stats, m, score) ==
    IF m # NoLicense
    THEN [stats EXCEPT
            !.phone_added = IF Truthy(m.license_phone) THEN @ + 1 ELSE @,
            !.email_added = IF Truthy(m.license_email) THEN @ + 1 ELSE @,
            !.exact_matches = IF counts_exact(score) THEN @ + 1 ELSE @,
            !.fuzzy_matches = IF counts_exact(score) THEN @ ELSE @ + 1]
    ELSE [stats EXCEPT !.no_matches = @ + 1]

\* a variant that assigns the tracking columns of every row, as
\* df['License_Phone'] = ... would, instead of df.at[idx, 'License_Phone']
RecordRow_whole_column(found) ==
    /\ best_match' = found.best_match
    /\ best_score' = found.best_score
    /\ df' = [i \in 1..Len(df) |->
                 updated_row(df[i], found.best_match, found.best_score)]
    /\ match_stats' = updated_stats(match_stats, found.best_match, found.best_score)

\* the body of the outer loop once the inner loop has ended with found
RecordRow(found) ==
    /\ best_match' = found.best_match
    /\ best_score' = found.best_score
    /\ df' = [df EXCEPT ![idx + 1] =
                 updated_row(@, found.best_match, found.best_score)]
    /\ match_stats' = updated_stats(match_stats, found.best_match, found.best_score)

\* one iteration of for idx, row in df.iterrows()
MatchRow ==
    /\ pc = "match"
    /\ idx < Len(df)
    /\ RecordRow(scan_licenses(df[idx + 1].Company_Name, license_df, 1,
                               NoLicense, Zero))
    /\ idx' = idx + 1
    /\ pc' = IF idx + 1 = Len(df) THEN "update" ELSE "match"
    /\ UNCHANGED <<arg, ret, license_df>>

Next == MatchRow

Spec == Init /\ [][Next]_vars

\* fuzzy_match_companies on pairs of names, and the matching loop
InitScoreAndMatch == InitScore \/ Init

NextScoreAndMatch == Score \/ MatchRow

SpecScoreAndMatch == InitScoreAndMatch /\ [][NextScoreAndMatch]_vars

(***************************************************************************)
(* create_active_plumbers_with_contact_info.py: generate_email             *)
(***************************************************************************)
\* str.lower on one ASCII character
lower_char(c) ==
    IF \E i \in 1..26 : Upper[i] = c
    THEN Lower[CHOOSE i \in 1..26 : Upper[i] = c]
    ELSE c

str_lower(s) == [i \in 1..Len(s) |-> lower_char(s[i])]

RECURSIVE as_text(_)
\* the string made of the characters of s, as one value: contact fields
\* (phones, emails) are compared whole, never character by character
as_text(s) == IF s = <<>> THEN "" ELSE s[1] \o as_text(Tail(s))

\* \w on ASCII text
WordChars ==
    {Lower[i] : i \in 1..26} \cup {Upper[i] : i \in 1..26}
        \cup {Digits[i] : i \in 1..10} \cup {"_"}
\* \s on ASCII text
Whitespace == {" ", "\t", "\n", "\r", "\f"}

\* re.sub(r'[^\w\s-]', '', str(company_name).lower()), then
\* re.sub(r'\s+', '', company_clean)
clean_company(company_name) ==
    SelectSeq(SelectSeq(str_lower(company_name),
                        LAMBDA c : c \in WordChars \cup Whitespace \cup {"-"}),
              LAMBDA c : c \notin Whitespace)

suffixes ==
    << <<"i", "n", "c">>,
       <<"l", "l", "c">>,
       <<"c", "o", "r", "p">>,
       <<"c", "o", "r", "p", "o", "r", "a", "t", "i", "o", "n">>,
       <<"c", "o", "m", "p", "a", "n", "y">>,
       <<"c", "o">>,
       <<"l", "t", "d">>,
       <<"p", "l", "u", "m", "b", "i", "n", "g">>,
       <<"m", "e", "c", "h", "a", "n", "i", "c", "a", "l">>,
       <<"h", "e", "a", "t", "i", "n", "g">>,
       <<"c", "o", "o", "l", "i", "n", "g">>,
       <<"h", "v", "a", "c">>,
       <<"s", "e", "r", "v", "i", "c", "e", "s">>,
       <<"s", "e", "r", "v", "i", "c", "e">> >>

\* str.endswith
EndsWith(s, suffix) ==
    /\ Len(suffix) <= Len(s)
    /\ StartsWithAt(s, Len(s) - Len(suffix) + 1, suffix)

\* re.sub(f'{suffix}$', '', company_clean) on text without a line break
strip_suffix(s, suffix) ==
    IF EndsWith(s, suffix) THEN SubSeq(s, 1, Len(s) - Len(suffix)) ELSE s

RECURSIVE strip_suffixes_from(_, _)
\* for suffix in suffixes: one pass, in the order of the list
strip_suffixes_from(s, k) ==
    IF k > Len(suffixes) THEN s
    ELSE strip_suffixes_from(strip_suffix(s, suffixes[k]), k + 1)

\* company_clean as the length and deny-list test finds it
domain_candidate(company_name) ==
    strip_suffixes_from(clean_company(company_name), 1)

\* the shortest domain accepted: len(company_clean) < 3 rejects
MinDomainLen == 3

generic_domains ==
    { <<"c", "e", "n", "t", "e", "r">>, <<"p", "o", "i", "n", "t">>,
      <<"u", "r", "b", "a", "n">>, <<"c", "i", "t", "y">> }

\* len(company_clean) < 3 or company_clean in ['center', 'point', ...]
too_generic(company_clean) ==
    Len(company_clean) < MinDomainLen \/ company_clean \in generic_domains

entity_words ==
    { <<"t", "r", "u", "s", "t">>, <<"e", "s", "t", "a", "t", "e">>,
      <<"l", "l", "c">>, <<"i", "n", "c">> }

\* any(word in contact_person.lower() for word in ['trust', 'estate', ...])
looks_like_entity(contact_person) ==
    \E word \in entity_words : IsSubstring(word, str_lower(contact_person))

DotCom == <<".", "c", "o", "m">>

\* a variant that returns the first of email_formats, first@company.com
personal_email_first_format(first_name, last_name, company_clean) ==
    as_text(first_name \o <<"@">> \o company_clean \o DotCom)

\* f"{first_name}.{last_name}@{company_clean}.com"
personal_email(first_name, last_name, company_clean) ==
    as_text(first_name \o <<".">> \o last_name \o <<"@">> \o company_clean \o DotCom)

\* f"info@{company_clean}.com"
info_email(company_clean) ==
    as_text(<<"i", "n", "f", "o", "@">> \o company_clean \o DotCom)

\* the locals of generate_email at a return; path names the return taken
EmailLocals(company_clean, name_parts, path, email) ==
    [company_clean |-> company_clean, name_parts |-> name_parts,
     path |-> path, email |-> email]

\* if len(name_parts) >= 2: ... return first.last@...; return info@...
email_for_person(company_clean, contact_person, name_parts) ==
    IF Len(name_parts) >= 2
    THEN IF looks_like_entity(contact_person)
         THEN EmailLocals(company_clean, name_parts, "entity", NoneVal)
         ELSE EmailLocals(company_clean, name_parts, "personal",
                  personal_email(str_lower(name_parts[1]),
                                 str_lower(name_parts[Len(name_parts)]),
                                 company_clean))
    ELSE EmailLocals(company_clean, name_parts, "info", info_email(company_clean))

\* if len(company_clean) < 3 or company_clean in [...]: return None
email_for_domain(company_clean, contact_person) ==
    IF too_generic(company_clean)
    THEN EmailLocals(company_clean, <<>>, "generic", NoneVal)
    ELSE email_for_person(company_clean, contact_person, str_split(contact_person))

\* if pd.isna(company_name) or pd.isna(contact_person): return None
generate_email_locals(company_name, contact_person, city) ==
    IF company_name = NaN \/ contact_person = NaN
    THEN EmailLocals(NaN, <<>>, "missing", NoneVal)
    ELSE email_for_domain(domain_candidate(company_name), contact_person)

generate_email(company_name, contact_person, city) ==
    generate_email_locals(company_name, contact_person, city).email

(***************************************************************************)
(* generate_email applied to a company name, a contact person and a city   *)
(***************************************************************************)
MaxCompanyWords == 2
MaxContactWords == 2

CompanyVocab ==
    { <<"A", "c", "m", "e">>, <<"A", "B">>, <<"C", "i", "t", "y">>,
      <<"P", "l", "u", "m", "b", "i", "n", "g">>, <<"I", "n", "c", ".">> }

ContactVocab ==
    { <<"J", "o">>, <<"P", "o", "e">>, <<"T", "r", "u", "s", "t">>,
      <<"I", "n", "c">> }

\* a cell of the contacts file holds text or is missing, never empty text
CompanyNames == (NamesOver(CompanyVocab, MaxCompanyWords) \ {<<>>}) \cup {NaN}
ContactPersons == (NamesOver(ContactVocab, MaxContactWords) \ {<<>>}) \cup {NaN}
Cities == {NaN, <<"M", "p", "l", "s">>}

InitEmail ==
    /\ arg \in CompanyNames \X ContactPersons \X Cities
    /\ ret = Pending
    /\ pc = "call"
    /\ PipelineIdle

Email ==
    /\ pc = "call"
    /\ arg \in CompanyNames \X ContactPersons \X Cities
    /\ ret' = generate_email_locals(arg[1], arg[2], arg[3])
    /\ pc' = "return"
    /\ UNCHANGED <<arg, df, license_df, idx, best_match, best_score, match_stats>>

NextEmail == Email

SpecEmail == InitEmail /\ [][NextEmail]_vars

(***************************************************************************)
(* create_active_plumbers_with_contact_info.py: extract_phone_from_address *)
(***************************************************************************)
\* \d on ASCII text
IsDigit(c) == \E i \in 1..10 : Digits[i] = c

\* [-.\s]
PhoneSeparators == {"-", "."} \cup Whitespace

\* s[i] exists and is a \w character
WordAt(s, i) == i \in 1..Len(s) /\ s[i] \in WordChars

\* \b between s[i-1] and s[i]
BoundaryBefore(s, i) == WordAt(s, i - 1) # WordAt(s, i)

\* \d{n} at s[i]
DigitsAt(s, i, n) ==
    /\ i + n - 1 <= Len(s)
    /\ \A k \in 0..(n - 1) : IsDigit(s[i + k])

\* the position after [-.\s]? at s[i]; a separator is no digit, so the
\* pattern that follows can only match with the separator consumed
after_separator(s, i) ==
    IF i <= Len(s) /\ s[i] \in PhoneSeparators THEN i + 1 ELSE i

RECURSIVE after_whitespace(_, _)
\* the position after \s* at s[i]
after_whitespace(s, i) ==
    IF i <= Len(s) /\ s[i] \in Whitespace THEN after_whitespace(s, i + 1) ELSE i

\* \d{4}\b at s[k], the tail of the first two patterns: the position of the
\* last character matched, 0 without a match
last_four_end(s, k) ==
    IF DigitsAt(s, k, 4) /\ BoundaryBefore(s, k + 4) THEN k + 3 ELSE 0

\* \d{3}[-.\s]?\d{4}\b at s[j]
last_seven_end(s, j) ==
    IF DigitsAt(s, j, 3) THEN last_four_end(s, after_separator(s, j + 3)) ELSE 0

\* phone_patterns[p] matched at s[i]: the position of the last character
\* matched, 0 without a match
pattern_end(p, s, i) ==
    IF ~BoundaryBefore(s, i) THEN 0
    ELSE IF p = 1
         THEN IF DigitsAt(s, i, 3)
              THEN last_seven_end(s, after_separator(s, i + 3))
              ELSE 0
    ELSE IF p = 2
         THEN IF /\ i + 4 <= Len(s)
                 /\ s[i] = "("
                 /\ DigitsAt(s, i + 1, 3)
                 /\ s[i + 4] = ")"
              THEN last_seven_end(s, after_whitespace(s, i + 5))
              ELSE 0
    ELSE IF DigitsAt(s, i, 10) /\ BoundaryBefore(s, i + 10) THEN i + 9 ELSE 0

\* re.search(pattern, str(address_str)) finds a match
pattern_found(p, s) == \E i \in 1..Len(s) : pattern_end(p, s, i) > 0

\* match.group(): the leftmost match
pattern_group(p, s) ==
    LET i == CHOOSE i \in 1..Len(s) :
                 /\ pattern_end(p, s, i) > 0
                 /\ \A k \in 1..(i - 1) : pattern_end(p, s, k) = 0
    IN  SubSeq(s, i, pattern_end(p, s, i))

\* f"({digits[:3]}) {digits[3:6]}-{digits[6:]}"
format_phone(digits) ==
    as_text(<<"(">> \o SubSeq(digits, 1, 3) \o <<")", " ">> \o SubSeq(digits, 4, 6)
                \o <<"-">> \o SubSeq(digits, 7, Len(digits)))

RECURSIVE extract_phone_from(_, _)
\* digits = re.sub(r'\D', '', match.group()); if len(digits) == 10: return
extract_phone_digits(s, p, digits) ==
    IF Len(digits) = 10 THEN format_phone(digits) ELSE extract_phone_from(s, p + 1)

\* for pattern in phone_patterns, from pattern p on
extract_phone_from(s, p) ==
    IF p > 3 THEN NoneVal
    ELSE IF pattern_found(p, s)
         THEN extract_phone_digits(s, p, SelectSeq(pattern_group(p, s), IsDigit))
         ELSE extract_phone_from(s, p + 1)

extract_phone_from_address(address_str) ==
    IF address_str = NaN THEN NoneVal ELSE extract_phone_from(address_str, 1)

(***************************************************************************)
(* create_active_plumbers_with_contact: the contact columns of each row    *)
(***************************************************************************)
\* search_existing_contact_data: the placeholder returns None, None
search_existing_contact_data(company_name) ==
    [existing_phone |-> NoneVal, existing_email |-> NoneVal]

\* if existing_phone: ... elif phone: ...
with_phone(row, phone, existing_phone) ==
    IF Truthy(existing_phone)
    THEN [row EXCEPT !.Phone_Number = existing_phone,
                     !.Contact_Info_Source = "Existing Database"]
    ELSE IF Truthy(phone)
    THEN [row EXCEPT !.Phone_Number = phone,
                     !.Contact_Info_Source = "Extracted from Address"]
    ELSE row

\* a variant that tags every generated email, whatever source is recorded
generated_source_always(source) == "Generated"

\* if pd.isna(Contact_Info_Source): Contact_Info_Source = 'Generated'
generated_source(source) == IF source = NoneVal THEN "Generated" ELSE source

\* if existing_email: ... else: generated_email = generate_email(...) ...
with_email(row, existing_email, generated_email) ==
    IF Truthy(existing_email)
    THEN [row EXCEPT !.Email = existing_email,
                     !.Contact_Info_Source = "Existing Database"]
    ELSE IF Truthy(generated_email)
    THEN [row EXCEPT !.Email = generated_email,
                     !.Contact_Info_Source = generated_source(@)]
    ELSE row

\* the body of the loop over active_df.iterrows(), given the lookup result
contact_row_with(row, existing) ==
    with_email(with_phone(row, extract_phone_from_address(row.Address),
                          existing.existing_phone),
               existing.existing_email,
               generate_email(row.Company_Name, row.Contact_Person, row.City))

contact_row(row) ==
    contact_row_with(row, search_existing_contact_data(row.Company_Name))

\* the text 'None' of the confidence column, which is not the value None
NoneLabel == "'None'"

\* the lambda of the Contact_Confidence column
contact_confidence(source) ==
    IF source = "Existing Database" THEN "High"
    ELSE IF source = "Extracted from Address" THEN "Medium"
    ELSE IF source = "Generated" THEN "Low"
    ELSE NoneLabel

\* to_csv then pd.read_csv of a text cell: a missing value stays missing, and
\* the text 'None' is read as missing by the pandas versions that list it
\* among the default na_values, and as text by the others
read_cell(v, none_is_na) == IF v = NoneLabel /\ none_is_na THEN NoneVal ELSE v

(***************************************************************************)
(* match_and_update_contacts: the contact columns after the matching loop  *)
(***************************************************************************)
\* a variant that keeps a phone the row already has
updated_phone_keeping(row) ==
    IF row.Phone_Number # NoneVal THEN row.Phone_Number ELSE row.License_Phone

\* df['Phone_Number'] = df['License_Phone']
updated_phone(row) == row.License_Phone

\* a variant that keeps an email the row already has
updated_email_keeping(row) ==
    IF row.Email # NoneVal THEN row.Email ELSE row.License_Email

\* License_Email if pd.notna(License_Email) else Email
updated_email(row) ==
    IF row.License_Email # NoneVal THEN row.License_Email ELSE row.Email

\* a variant that relabels a row only when the license record has a phone
updated_source_phone_only(row) ==
    IF row.License_Phone # NoneVal
    THEN "Licensed Data"
    ELSE row.Contact_Info_Source

\* 'Licensed Data' if pd.notna(License_Phone) or pd.notna(License_Email)
\* else Contact_Info_Source
updated_source(row) ==
    IF row.License_Phone # NoneVal \/ row.License_Email # NoneVal
    THEN "Licensed Data"
    ELSE row.Contact_Info_Source

\* a variant that leaves the confidence of the earlier stage in place
updated_confidence_kept(source, confidence) == confidence

\* 'High' if Contact_Info_Source == 'Licensed Data' else Contact_Confidence
updated_confidence(source, confidence) ==
    IF source = "Licensed Data" THEN "High" ELSE confidence

\* lines 210-224 on one row: the four column assignments, in their order
updated_contact(row) ==
    [row EXCEPT !.Phone_Number = updated_phone(row),
                !.Email = updated_email(row),
                !.Contact_Info_Source = updated_source(row),
                !.Contact_Confidence = updated_confidence(updated_source(row), @)]

\* df['has_phone'] = df['Phone_Number'].notna()
has_phone(row) == row.Phone_Number # NoneVal

\* df['has_email'] = df['Email'].notna()
has_email(row) == row.Email # NoneVal

\* df['has_both'] = df['has_phone'] & df['has_email']
has_both(row) == has_phone(row) /\ has_email(row)

\* a boolean column as sort_values orders it: False before True
as_int(b) == IF b THEN 1 ELSE 0

\* a variant that sorts by the number of permits before the contact columns
sort_key_permits_first(row) ==
    <<row.Total_Permits, as_int(has_both(row)), as_int(has_phone(row)),
      as_int(has_email(row))>>

\* the columns of sort_values, in their order
sort_key(row) ==
    <<as_int(has_both(row)), as_int(has_phone(row)), as_int(has_email(row)),
      row.Total_Permits>>

\* key x stands strictly before key y when every column is descending
key_before(x, y) ==
    \E k \in 1..Len(x) :
        /\ x[k] > y[k]
        /\ \A j \in 1..(k - 1) : x[j] = y[j]

\* row put into rows, which are in order, behind every row it does not
\* stand before: rows with equal keys keep the order they had
placed(rows, row) ==
    LET k == Cardinality({i \in 1..Len(rows) :
                            ~key_before(sort_key(row), sort_key(rows[i]))})
    IN  SubSeq(rows, 1, k) \o <<row>> \o SubSeq(rows, k + 1, Len(rows))

RECURSIVE sort_values(_)
\* df.sort_values([...], ascending=[False, False, False, False])
sort_values(rows) ==
    IF rows = <<>> THEN <<>>
    ELSE placed(sort_values(SubSeq(rows, 1, Len(rows) - 1)), rows[Len(rows)])

\* df[final_columns] on one row: the columns the model carries, without
\* License_Phone and License_Email
final_columns(row) ==
    [Company_Name |-> row.Company_Name,
     Contact_Person |-> row.Contact_Person,
     Phone_Number |-> row.Phone_Number,
     Email |-> row.Email,
     Address |-> row.Address,
     City |-> row.City,
     Total_Permits |-> row.Total_Permits,
     Contact_Info_Source |-> row.Contact_Info_Source,
     Contact_Confidence |-> row.Contact_Confidence,
     Matched_License_Company |-> row.Matched_License_Company,
     Match_Confidence |-> row.Match_Confidence]

\* a variant that keeps every row that has a phone or an email
call_ready_any_contact(rows) ==
    SelectSeq(rows, LAMBDA row : has_phone(row) \/ has_email(row))

\* call_ready = df[df['Phone_Number'].notna()].copy()
call_ready(rows) == SelectSeq(rows, has_phone)

(***************************************************************************)
(* The two stages in sequence: create_active_plumbers_with_contact writes  *)
(* the contacts file that match_and_update_contacts reads                  *)
(***************************************************************************)
MaxContactRows == 1
MaxContactLicenses == 1

ContactCompanies ==
    { <<"A", " ", "I", "n", "c", ".">>,
      <<"A", " ", "C", "O", "S", "T", "C", "O">> }
ContactPeople == {NaN, <<"J", "o", " ", "P", "o", "e">>}
Addresses ==
    { <<"1", " ", "E", "l", "m">>,
      <<"1", " ", "E", "l", "m", " ", "6", "1", "2", "-", "5", "5", "5", "-",
        "0", "1", "9", "9">> }

\* a row of the active plumbers with Phone_Number, Email and
\* Contact_Info_Source set to None; a column that does not exist yet is None
RawRow(company, person, address) ==
    [Company_Name |-> company, Contact_Person |-> person, Address |-> address,
     City |-> <<"M", "p", "l", "s">>, Total_Permits |-> 1,
     Phone_Number |-> NoneVal, Email |-> NoneVal,
     Contact_Info_Source |-> NoneVal, Contact_Confidence |-> NoneVal,
     Matched_License_Company |-> NaN, Match_Confidence |-> NaN,
     License_Phone |-> NoneVal, License_Email |-> NoneVal]

RawRows ==
    {RawRow(c, p, a) : c \in ContactCompanies, p \in ContactPeople, a \in Addresses}

InitContacts ==
    /\ arg = Pending
    /\ ret = Pending
    /\ df \in UNION {[1..k -> RawRows] : k \in 1..MaxContactRows}
    /\ license_df \in UNION {[1..k -> LicenseRecords] : k \in 0..MaxContactLicenses}
    /\ idx = 0
    /\ best_match = NoLicense
    /\ best_score = Zero
    /\ match_stats = NoStats
    /\ pc = "contact"

\* one iteration of for idx, row in active_df.iterrows()
ContactRow ==
    /\ pc = "contact"
    /\ idx < Len(df)
    /\ df' = [df EXCEPT ![idx + 1] = contact_row(@)]
    /\ idx' = idx + 1
    /\ pc' = IF idx + 1 = Len(df) THEN "confidence" ELSE "contact"
    /\ UNCHANGED <<arg, ret, license_df, best_match, best_score, match_stats>>

\* the Contact_Confidence column, then to_csv
AddConfidence ==
    /\ pc = "confidence"
    /\ df' = [i \in 1..Len(df) |->
                 [df[i] EXCEPT !.Contact_Confidence =
                                   contact_confidence(df[i].Contact_Info_Source)]]
    /\ pc' = "saved"
    /\ UNCHANGED <<arg, ret, license_df, idx, best_match, best_score, match_stats>>

\* pd.read_csv of the contacts file, the counters and the tracking columns
LoadContacts ==
    /\ pc = "saved"
    /\ \E none_is_na \in BOOLEAN :
           df' = [i \in 1..Len(df) |->
                     [df[i] EXCEPT
                         !.Contact_Confidence = read_cell(@, none_is_na),
                         !.Matched_License_Company = NaN,
                         !.Match_Confidence = NaN,
                         !.License_Phone = NoneVal,
                         !.License_Email = NoneVal]]
    /\ idx' = 0
    /\ match_stats' = NoStats
    /\ pc' = "match"
    /\ UNCHANGED <<arg, ret, license_df, best_match, best_score>>

\* lines 208-224: Phone_Number, Email, Contact_Info_Source, Contact_Confidence
UpdateContacts ==
    /\ pc = "update"
    /\ df' = [i \in 1..Len(df) |-> updated_contact(df[i])]
    /\ pc' = "sort"
    /\ UNCHANGED <<arg, ret, license_df, idx, best_match, best_score, match_stats>>

\* lines 226-239: the sort keys, sort_values, and the keys dropped again
SortContacts ==
    /\ pc = "sort"
    /\ df' = sort_values(df)
    /\ pc' = "save"
    /\ UNCHANGED <<arg, ret, license_df, idx, best_match, best_score, match_stats>>

\* lines 241-275: the final columns, the main file and the call-ready file
SaveContacts ==
    /\ pc = "save"
    /\ df' = [i \in 1..Len(df) |-> final_columns(df[i])]
    /\ ret' = [main |-> df', call_ready |-> call_ready(df')]
    /\ pc' = "done"
    /\ UNCHANGED <<arg, license_df, idx, best_match, best_score, match_stats>>

NextContacts ==
    \/ ContactRow
    \/ AddConfidence
    \/ LoadContacts
    \/ MatchRow
    \/ UpdateContacts
    \/ SortContacts
    \/ SaveContacts

SpecContacts == InitContacts /\ [][NextContacts]_vars


(***************************************************************************)
(* The sort and the two output files of match_and_update_contacts, on the  *)
(* rows that the two stages leave behind                                   *)
(***************************************************************************)
MaxOutputRows == 3
MaxPermits == 2

\* a row of the contacts file as both stages leave it when the license list
\* is licenses: lines 110-146 of the first stage, read_csv, one iteration of
\* the matching loop and the column updates of lines 208-224
pipeline_row(raw, licenses, found) ==
    updated_contact(
        updated_row(
            [contact_row(raw) EXCEPT
                !.Contact_Confidence =
                    read_cell(contact_confidence(contact_row(raw).Contact_Info_Source),
                              TRUE)],
            found.best_match, found.best_score))

OutputLicenses ==
    { <<>> } \cup
    { <<m>> : m \in {r \in LicenseRecords :
                        r.license_company \in {<<"C", "O", "S", "T", "C", "O">>,
                                               <<"B", " ", "C", "O", "S", "T", "C", "O">>}} }

OutputRaws ==
    { [RawRow(<<"A", " ", "C", "O", "S", "T", "C", "O">>, p, <<"1", " ", "E", "l", "m">>)
          EXCEPT !.Total_Permits = t] : p \in ContactPeople, t \in 1..MaxPermits }

OutputRows ==
    { pipeline_row(raw, l, scan_licenses(raw.Company_Name, l, 1, NoLicense, Zero)) :
          raw \in OutputRaws, l \in OutputLicenses }

InitOutput ==
    /\ arg = Pending
    /\ ret = Pending
    /\ df \in UNION {[1..k -> OutputRows] : k \in 1..MaxOutputRows}
    /\ license_df = <<>>
    /\ idx = 0
    /\ best_match = NoLicense
    /\ best_score = Zero
    /\ match_stats = NoStats
    /\ pc = "sort"

NextOutput == SortContacts \/ SaveContacts

SpecOutput == InitOutput /\ [][NextOutput]_vars

(***************************************************************************)
(* extract_plumber_contacts: the activity level of one applicant           *)
(***************************************************************************)
MaxDays == 366

\* a value pd.cut puts in no bin, and the days of a date that is NaT
NoLevel == "nan"

\* bins=[0, 30, 90, 180, 365, float('inf')]: the finite edges; the last bin
\* has no upper edge
bins == <<0, 30, 90, 180, 365>>

labels ==
    <<"Very Active (< 30 days)", "Active (30-90 days)", "Moderate (90-180 days)",
      "Low (180-365 days)", "Inactive (> 1 year)">>

\* bin k of pd.cut with right=True and include_lowest=False: (lower, upper]
in_bin(days, k) ==
    /\ bins[k] < days
    /\ k < Len(bins) => days <= bins[k + 1]

\* pd.cut(days, bins, labels) on one value
cut(days) ==
    IF \E k \in 1..Len(bins) : in_bin(days, k)
    THEN labels[CHOOSE k \in 1..Len(bins) : in_bin(days, k)]
    ELSE NoLevel

\* (today - Last_Permit_Date).dt.days with errors='coerce' for the date
days_since(last_permit) ==
    IF last_permit.parsed THEN last_permit.days_ago ELSE NoLevel

\* Days_Since_Last_Permit and Activity_Level of one applicant; pd.cut leaves
\* a missing number of days without a level
activity(last_permit) ==
    [Days_Since_Last_Permit |-> days_since(last_permit),
     Activity_Level |-> IF last_permit.parsed THEN cut(last_permit.days_ago)
                        ELSE NoLevel]

\* the last permit date of an applicant: a date some whole days ago, or
\* text that to_datetime coerces to NaT
LastPermitDates ==
    {[parsed |-> TRUE, days_ago |-> d] : d \in 0..MaxDays}
        \cup {[parsed |-> FALSE, days_ago |-> 0]}

InitActivity ==
    /\ arg \in LastPermitDates
    /\ ret = Pending
    /\ pc = "call"
    /\ PipelineIdle

Activity ==
    /\ pc = "call"
    /\ ret' = activity(arg)
    /\ pc' = "return"
    /\ UNCHANGED <<arg, df, license_df, idx, best_match, best_score, match_stats>>

NextActivity == Activity

SpecActivity == InitActivity /\ [][NextActivity]_vars

(***************************************************************************)
(* merge_contractor_contacts: the applicants file joined with the contacts *)
(* file (the applicants file exists)                                       *)
(***************************************************************************)
MaxApplicants == 2
MaxContacts == 2

\* .str.upper().str.strip()
normalized_name(name) == str_strip(str_upper(name))

\* the contact columns of an applicant row that finds no contact record
NoContact ==
    [Phone_Number |-> NoneVal, Email |-> NoneVal, Contact_Person |-> NoneVal,
     Contact_Info_Source |-> NoneVal, Contact_Confidence |-> NoneVal]

\* an applicant row with the contact columns of one contact record
joined(applicant, contact) ==
    [applicant_name |-> applicant.applicant_name,
     normalized_name |-> normalized_name(applicant.applicant_name),
     Phone_Number |-> contact.Phone_Number,
     Email |-> contact.Email,
     Contact_Person |-> contact.Contact_Person,
     Contact_Info_Source |-> contact.Contact_Info_Source,
     Contact_Confidence |-> contact.Contact_Confidence]

\* the contact records whose normalized_name equals that of the applicant
hits(applicant, contacts) ==
    SelectSeq(contacts, LAMBDA c : normalized_name(c.Company_Name)
                                     = normalized_name(applicant.applicant_name))

\* the rows that a left merge makes of one applicant row
merged_rows(applicant, found) ==
    IF found = <<>> THEN <<joined(applicant, NoContact)>>
    ELSE [k \in 1..Len(found) |-> joined(applicant, found[k])]

RECURSIVE merge(_, _)
\* applicants_df.merge(contacts_df[[...]], on='normalized_name', how='left')
merge(applicants, contacts) ==
    IF applicants = <<>> THEN <<>>
    ELSE merged_rows(Head(applicants), hits(Head(applicants), contacts))
             \o merge(Tail(applicants), contacts)

\* .fillna(value) on one cell
fillna(v, value) == IF v = NoneVal THEN value ELSE v

\* lines 48-52 on one row
filled(row) ==
    [row EXCEPT !.Phone_Number = fillna(@, ""),
                !.Email = fillna(@, ""),
                !.Contact_Person = fillna(@, ""),
                !.Contact_Info_Source = fillna(@, NoneLabel),
                !.Contact_Confidence = fillna(@, NoneLabel)]

merge_contractor_contacts(contacts, applicants) ==
    LET merged_df == merge(applicants, contacts)
    IN  [i \in 1..Len(merged_df) |-> filled(merged_df[i])]

MergeNames ==
    { <<"A", "b", "c">>, <<"A", "B", "C", " ">>, <<"X", "y", "z">> }

\* the rows of the contacts file: with a licensed phone, or with no contact
\* data at all
ContactRecords ==
    { [Company_Name |-> n, Phone_Number |-> c[1], Email |-> NoneVal,
       Contact_Person |-> c[2], Contact_Info_Source |-> c[3],
       Contact_Confidence |-> c[4]] :
          n \in MergeNames,
          c \in { <<"612-555-0101", "Jo Poe", "Licensed Data", "High">>,
                  <<NoneVal, NoneVal, NoneVal, NoneVal>> } }

\* the contacts file has one row per company name as written
DistinctNames(contacts) ==
    \A i, j \in 1..Len(contacts) :
        i # j => contacts[i].Company_Name # contacts[j].Company_Name

ContactFiles ==
    { c \in UNION {[1..k -> ContactRecords] : k \in 0..MaxContacts} :
          DistinctNames(c) }

ApplicantFiles ==
    UNION {[1..k -> {[applicant_name |-> n] : n \in MergeNames}] :
              k \in 1..MaxApplicants}

InitMerge ==
    /\ arg \in {[contacts_df |-> c, applicants_df |-> a] :
                   c \in ContactFiles, a \in ApplicantFiles}
    /\ ret = Pending
    /\ pc = "call"
    /\ PipelineIdle

Merge ==
    /\ pc = "call"
    /\ ret' = merge_contractor_contacts(arg.contacts_df, arg.applicants_df)
    /\ pc' = "return"
    /\ UNCHANGED <<arg, df, license_df, idx, best_match, best_score, match_stats>>

NextMerge == Merge

SpecMerge == InitMerge /\ [][NextMerge]_vars

(***************************************************************************)
(* extract_license_data_from_pdf: the lines of the license directory       *)
(***************************************************************************)
MaxLines == 2

\* a regular expression that finds nothing: the match object is None
NoMatch == <<>>

Letters == {Lower[i] : i \in 1..26} \cup {Upper[i] : i \in 1..26}

\* [A-Z]
UpperLetters == {Upper[i] : i \in 1..26}

\* [a-zA-Z0-9._%+-]
EmailLocalChars ==
    Letters \cup {Digits[i] : i \in 1..10} \cup {".", "_", "%", "+", "-"}

\* [a-zA-Z0-9.-]
EmailDomainChars == Letters \cup {Digits[i] : i \in 1..10} \cup {".", "-"}

\* every character of s[i..j] is in S
AllIn(s, i, j, S) == \A k \in i..j : s[k] \in S

\* the least and the largest element of a non-empty set of positions
Least(S) == CHOOSE i \in S : \A k \in S : i <= k
Largest(S) == CHOOSE i \in S : \A k \in S : i >= k

\* str.find(sub) for a non-empty sub: the index, from 0, of the first
\* occurrence, -1 without one
str_find(s, sub) ==
    IF IsSubstring(sub, s)
    THEN Least({i \in 1..Len(s) : StartsWithAt(s, i, sub)}) - 1
    ELSE -1

\* s[:k]: the first k characters, all but the last -k for a negative k
str_until(s, k) ==
    IF k >= 0 THEN SubSeq(s, 1, k)
    ELSE IF Len(s) + k >= 1 THEN SubSeq(s, 1, Len(s) + k)
    ELSE <<>>

RECURSIVE collapse_from(_, _)
\* re.sub(r'\s+', ' ', s) from position i on
collapse_from(s, i) ==
    IF i > Len(s) THEN <<>>
    ELSE IF s[i] \in Whitespace
         THEN IF i > 1 /\ s[i - 1] \in Whitespace
              THEN collapse_from(s, i + 1)
              ELSE <<" ">> \o collapse_from(s, i + 1)
         ELSE <<s[i]>> \o collapse_from(s, i + 1)

\* 'License Type' in line and 'Applicant Name' in line
is_header(line) ==
    /\ IsSubstring(<<"L", "i", "c", "e", "n", "s", "e", " ", "T", "y", "p", "e">>, line)
    /\ IsSubstring(<<"A", "p", "p", "l", "i", "c", "a", "n", "t", " ", "N", "a", "m", "e">>,
                   line)

\* a variant that takes every line for a license line
is_license_line_always(line) == TRUE

\* line.strip().startswith('L101')
is_license_line(line) == StartsWithAt(str_strip(line), 1, <<"L", "1", "0", "1">>)

\* \d{3}-\d{3}-\d{4} at s[i]
phone_at(s, i) ==
    /\ i + 11 <= Len(s)
    /\ DigitsAt(s, i, 3)
    /\ s[i + 3] = "-"
    /\ DigitsAt(s, i + 4, 3)
    /\ s[i + 7] = "-"
    /\ DigitsAt(s, i + 8, 4)

\* re.search(r'(\d{3}-\d{3}-\d{4})', line): group(1) of the first match
phone_match(line) ==
    IF \E i \in 1..Len(line) : phone_at(line, i)
    THEN SubSeq(line, Least({i \in 1..Len(line) : phone_at(line, i)}),
                Least({i \in 1..Len(line) : phone_at(line, i)}) + 11)
    ELSE NoMatch

\* the end of the longest run of characters of S that starts behind s[j]
run_end(s, j, S) == Largest({e \in j..Len(s) : AllIn(s, j + 1, e, S)})

\* the dots behind the @ at s[j] at which \.[a-zA-Z]{2,} can match, with
\* at least one character of the domain before them
tld_dots(s, j) ==
    {p \in (j + 2)..(run_end(s, j, EmailDomainChars) - 2) :
        s[p] = "." /\ s[p + 1] \in Letters /\ s[p + 2] \in Letters}

\* the pattern of the email matches around the @ at s[j]
email_at(s, j) ==
    /\ s[j] = "@"
    /\ j > 1
    /\ s[j - 1] \in EmailLocalChars
    /\ tld_dots(s, j) # {}

\* the match around the @ at s[j]: the local part is the whole run before
\* the @, the domain reaches to the last dot that two letters follow, and
\* the letters behind that dot are taken as far as they go
email_around(s, j) ==
    SubSeq(s, Least({i \in 1..(j - 1) : AllIn(s, i, j - 1, EmailLocalChars)}),
           run_end(s, Largest(tld_dots(s, j)), Letters))

\* re.search(r'([a-zA-Z0-9._%+-]+@[a-zA-Z0-9.-]+\.[a-zA-Z]{2,})', line):
\* group(1) of the first match
email_match(line) ==
    IF \E j \in 1..Len(line) : email_at(line, j)
    THEN email_around(line, Least({j \in 1..Len(line) : email_at(line, j)}))
    ELSE NoMatch

APPROVED == <<"A", "P", "P", "R", "O", "V", "E", "D">>

\* line.find('APPROVED')
approved_idx(line) == str_find(line, APPROVED)

\* line[approved_idx + 8:].strip()
after_approved(line) ==
    str_strip(SubSeq(line, approved_idx(line) + 8 + 1, Len(line)))

\* \d+\s+[A-Z] at s[i]
address_at(s, i) ==
    /\ IsDigit(s[i])
    /\ \E m \in i..Len(s) :
           /\ \A k \in i..m : IsDigit(s[k])
           /\ \E w \in (m + 1)..(Len(s) - 1) :
                  /\ AllIn(s, m + 1, w, Whitespace)
                  /\ s[w + 1] \in UpperLetters

\* re.search(r'\d+\s+[A-Z]', after_approved): start() of the first match,
\* -1 for no match
address_match(s) ==
    IF \E i \in 1..Len(s) : address_at(s, i)
    THEN Least({i \in 1..Len(s) : address_at(s, i)}) - 1
    ELSE -1

\* lines 52-62: where the company name ends in after_approved; the email
\* is looked for in lower case
name_end(after, phone, email) ==
    IF address_match(after) >= 0 THEN address_match(after)
    ELSE IF phone # NoMatch THEN str_find(after, phone)
    ELSE IF email # NoMatch THEN str_find(after, str_lower(email))
    ELSE Len(after)

\* lines 49-65: company_name of a line that holds APPROVED
company_name_in(line, phone, email) ==
    collapse_from(str_strip(str_until(after_approved(line),
                      name_end(after_approved(line), phone, email))), 1)

\* a match as the record keeps it
as_field(match) == IF match = NoMatch THEN NoneVal ELSE as_text(match)

\* the dictionary appended to licenses
license_record(name, phone, email) ==
    [license_company |-> name,
     license_phone |-> as_field(phone),
     license_email |-> as_field(str_lower(email))]

\* if company_name and (phone or email)
keeps(name, phone, email) == name # <<>> /\ (phone # NoMatch \/ email # NoMatch)

LicenseLines ==
    {
      \* the header of a page
      <<"L", "i", "c", "e", "n", "s", "e", " ", "T", "y", "p", "e", " ",
        "A", "p", "p", "l", "i", "c", "a", "n", "t", " ", "N", "a", "m",
        "e">>,
      \* name, street address, phone and email
      <<"L", "1", "0", "1", " ", "A", "P", "P", "R", "O", "V", "E", "D",
        " ", "X", "Y", " ", "I", "N", "C", " ", "1", "2", " ", "M", "A",
        "I", "N", " ", "6", "1", "2", "-", "5", "5", "5", "-", "1", "2",
        "1", "2", " ", "a", "@", "x", "y", ".", "c", "o", "m">>,
      \* no street address: the name ends at the phone
      <<"L", "1", "0", "1", " ", "A", "P", "P", "R", "O", "V", "E", "D",
        " ", "X", "Y", " ", " ", "I", "N", "C", " ", "6", "1", "2", "-",
        "5", "5", "5", "-", "1", "2", "1", "2">>,
      \* no street address, no phone: the name ends at the email
      <<"L", "1", "0", "1", " ", "A", "P", "P", "R", "O", "V", "E", "D",
        " ", "X", "Y", " ", "I", "N", "C", " ", "a", "@", "x", "y", ".",
        "c", "o", "m">>,
      \* an email written with capital letters
      <<"L", "1", "0", "1", " ", "A", "P", "P", "R", "O", "V", "E", "D",
        " ", "X", "Y", " ", "I", "N", "C", " ", "A", "n", "n", "@", "X",
        "Y", ".", "c", "o", "m">>,
      \* the email before the phone
      <<"L", "1", "0", "1", " ", "A", "P", "P", "R", "O", "V", "E", "D",
        " ", "X", "Y", " ", "a", "@", "x", "y", ".", "c", "o", "m", " ",
        "6", "1", "2", "-", "5", "5", "5", "-", "1", "2", "1", "2">>,
      \* a license line with another status
      <<"L", "1", "0", "1", " ", "P", "E", "N", "D", "I", "N", "G", " ",
        "Q", "Z", " ", "L", "L", "C", " ", "6", "1", "2", "-", "5", "5",
        "5", "-", "1", "3", "1", "3">>,
      \* a line of another license type
      <<"P", "2", "0", "2", " ", "A", "P", "P", "R", "O", "V", "E", "D",
        " ", "A", "B", " ", "C", "O", " ", "6", "1", "2", "-", "5", "5",
        "5", "-", "1", "4", "1", "4">>,
      \* no phone and no email
      <<"L", "1", "0", "1", " ", "A", "P", "P", "R", "O", "V", "E", "D",
        " ", "X", "Y", " ", "I", "N", "C", " ", "1", "2", " ", "M", "A",
        "I", "N">>,
      \* no name before the phone
      <<" ", "L", "1", "0", "1", " ", "A", "P", "P", "R", "O", "V", "E",
        "D", " ", "6", "1", "2", "-", "5", "5", "5", "-", "1", "5", "1",
        "5">>
    }

InitLicenses ==
    /\ arg \in UNION {[1..k -> LicenseLines] : k \in 1..MaxLines}
    /\ ret = [licenses |-> <<>>]
    /\ pc = "lines"
    /\ PipelineIdle

\* lines 67-72: the record is appended, or the line is passed over
AppendLicense(name, phone, email) ==
    ret' = [licenses |-> IF keeps(name, phone, email)
                         THEN Append(ret.licenses, license_record(name, phone, email))
                         ELSE ret.licenses]

\* lines 36-72 on a line that starts with L101
LicenseLine(line, phone, email) ==
    IF approved_idx(line) > 0
    THEN AppendLicense(company_name_in(line, phone, email), phone, email)
    ELSE ret' = ret

\* one iteration of for line in lines; after the last line the function
\* returns
ExtractLine ==
    /\ pc = "lines"
    /\ idx < Len(arg)
    /\ IF is_header(arg[idx + 1]) \/ ~is_license_line(arg[idx + 1])
       THEN ret' = ret
       ELSE LicenseLine(arg[idx + 1], phone_match(arg[idx + 1]),
                        email_match(arg[idx + 1]))
    /\ idx' = idx + 1
    /\ pc' = IF idx + 1 = Len(arg) THEN "returned" ELSE "lines"
    /\ UNCHANGED <<df, arg, license_df, best_match, best_score, match_stats>>

NextLicenses == ExtractLine

SpecLicenses == InitLicenses /\ [][NextLicenses]_vars

(***************************************************************************)
(* Properties of the matching loop (Spec, SpecScoreAndMatch)               *)
(***************************************************************************)
EightyFiveHundredths == [n |-> 17, d |-> 20]

\* the score of a permit company against license record k
ScoreOf(company, k) ==
    fuzzy_match_companies(company, license_df[k].license_company).score

\* the largest score of a permit company over a non-empty license list
MaxScoreOf(company) ==
    MaxOf({ScoreOf(company, k) : k \in 1..Len(license_df)})

\* the license list holds a record that scores 0.85 or more
HasMatch(company) ==
    /\ Len(license_df) > 0
    /\ GreaterEq(MaxScoreOf(company), EightyFiveHundredths)

\* the first record of the license list that scores m
FirstAttaining(company, m) ==
    CHOOSE k \in 1..Len(license_df) :
        /\ ScoreOf(company, k) = m
        /\ \A j \in 1..(k - 1) : ScoreOf(company, j) # m

\* the first record of the license list that attains the largest score
FirstBest(company) == FirstAttaining(company, MaxScoreOf(company))

Unmatched(row) ==
    /\ row.Matched_License_Company = NaN
    /\ row.Match_Confidence = NaN

\* float(text) of a text d.dd
parse_score(text) ==
    LET digit(c) == (CHOOSE v \in 1..10 : Digits[v] = c) - 1
    IN  Frac(100 * digit(text[1]) + 10 * digit(text[3]) + digit(text[4]), 100)

\* C1 as stated: once the license records are scanned for a permit row, the
\* recorded match score equals the largest fuzzy_match_companies score over
\* the license records when that is at least 0.85, and no match is recorded
\* when it is below 0.85 or the license list is empty.
C1_RecordedIsMax ==
    \A i \in 1..idx :
        IF HasMatch(df[i].Company_Name)
        THEN /\ df[i].Match_Confidence # NaN
             /\ parse_score(df[i].Match_Confidence) = MaxScoreOf(df[i].Company_Name)
        ELSE Unmatched(df[i])

\* the license list holds a record and the largest score m over it is 0.85
\* or more
MatchAt(m) == Len(license_df) > 0 /\ GreaterEq(m, EightyFiveHundredths)

\* the row records the largest score m, rounded, or no match
RoundedMaxRecorded(row, m) ==
    IF MatchAt(m) THEN row.Match_Confidence = format_2f(m) ELSE Unmatched(row)

\* the locals of the loop hold the largest score m, or no match
BestScoreIsMax(m) ==
    IF MatchAt(m) THEN best_score = m
    ELSE best_match = NoLicense /\ best_score = Zero

\* C1 as amended: once the license records are scanned for a permit row,
\* best_score equals the largest fuzzy_match_companies score over the license
\* records when that is at least 0.85, and the Match_Confidence recorded for
\* the row is that score rounded to two decimals; no match is recorded when
\* the largest score is below 0.85 or the license list is empty.
C1_RecordedIsRoundedMax ==
    /\ \A i \in 1..idx :
           RoundedMaxRecorded(df[i], MaxScoreOf(df[i].Company_Name))
    /\ (pc \in {"match", "update"} /\ idx > 0) =>
           BestScoreIsMax(MaxScoreOf(df[idx].Company_Name))

C1_Witness ==
    /\ idx > 0
    /\ Len(license_df) > 1
    /\ \E k \in 1..Len(license_df) : ScoreOf(df[idx].Company_Name, k) # best_score
    /\ best_score = [n |-> 7, d |-> 8]
    /\ df[idx].Match_Confidence = <<"0", ".", "8", "8">>

\* row i records the license record m, and so does best_match if row i is the
\* row processed last
RecordedFrom(i, m) ==
    /\ df[i].Matched_License_Company = m.license_company
    /\ df[i].License_Phone = m.license_phone
    /\ df[i].License_Email = m.license_email
    /\ i = idx => best_match = m

\* if the largest score of row i is a match, the row records the first
\* license record that attains it
FirstRecorded(i, score) ==
    MatchAt(score) =>
        RecordedFrom(i, license_df[FirstAttaining(df[i].Company_Name, score)])

\* C2: when several license records attain the same highest score for a
\* permit row, the match recorded is the first of them in the license list;
\* rows with the same company name, matched against the same list, record
\* the same match.
C2_FirstWinsTies ==
    /\ \A i \in 1..idx :
           FirstRecorded(i, MaxScoreOf(df[i].Company_Name))
    /\ \A i, j \in 1..idx :
           df[i].Company_Name = df[j].Company_Name => df[i] = df[j]

C2_Witness ==
    /\ idx > 0
    /\ Len(license_df) = 2
    /\ license_df[1] # license_df[2]
    /\ df[idx].Company_Name # NaN
    /\ HasMatch(df[idx].Company_Name)
    /\ ScoreOf(df[idx].Company_Name, 1) = ScoreOf(df[idx].Company_Name, 2)
    /\ best_match = license_df[1]
    /\ df[idx].License_Phone = license_df[1].license_phone
    /\ df[idx].License_Email = license_df[1].license_email

\* exact when the largest score m of a row is 1.0, fuzzy when
\* 0.85 <= m < 1.0, none when m < 0.85 or the license list is empty
Decision(m) ==
    IF ~MatchAt(m) THEN "none" ELSE IF m = One THEN "exact" ELSE "fuzzy"

DecisionOf(company) == Decision(MaxScoreOf(company))

\* the counters count the processed rows by decision, given as the set of
\* the pairs <<row, decision>>, and a row has a match recorded exactly when
\* its decision is not none
CountedByDecision(decisions) ==
    /\ match_stats.exact_matches =
           Cardinality({p \in decisions : p[2] = "exact"})
    /\ match_stats.fuzzy_matches =
           Cardinality({p \in decisions : p[2] = "fuzzy"})
    /\ match_stats.no_matches =
           Cardinality({p \in decisions : p[2] = "none"})
    /\ \A p \in decisions : (p[2] # "none") <=> ~Unmatched(df[p[1]])

\* C4: fuzzy_match_companies returns a score in [0,1] and reports a match
\* exactly when the score is at least 0.85; a recorded match is counted exact
\* when its score is 1.0 and fuzzy when 0.85 <= score < 1.0, and a row whose
\* best score is below 0.85 gets no match.
C4_ThresholdConsistency ==
    /\ pc = "return" =>
           /\ GreaterEq(ret.score, Zero)
           /\ GreaterEq(One, ret.score)
           /\ ret.is_match <=> GreaterEq(ret.score, EightyFiveHundredths)
    /\ pc \in {"match", "update"} =>
           CountedByDecision({<<i, DecisionOf(df[i].Company_Name)>> : i \in 1..idx})

C4_Witness ==
    /\ pc = "update"
    /\ match_stats.exact_matches = 1
    /\ match_stats.fuzzy_matches = 1
    /\ \E i \in 1..idx : df[i].Match_Confidence = <<"0", ".", "8", "8">>

\* the row that the loop records for a company name, from that name and the
\* license list alone
MatchRecorded(company, m, score) ==
    [Company_Name |-> company,
     Matched_License_Company |-> m.license_company,
     Match_Confidence |-> format_2f(score),
     License_Phone |-> m.license_phone,
     License_Email |-> m.license_email]

\* the same, given the largest score of the name over the license list
MatchGiven(company, score) ==
    IF Len(license_df) > 0 /\ GreaterEq(score, EightyFiveHundredths)
    THEN MatchRecorded(company, license_df[FirstAttaining(company, score)], score)
    ELSE NewRow(company)

MatchOf(company) == MatchGiven(company, MaxScoreOf(company))

\* C11: the match recorded for a permit row depends only on that row's
\* company name and on the license list: whatever other rows are present and
\* in whatever order they are processed, a processed row holds the match of
\* its own name, and a row not yet processed is untouched by the processing
\* of the others.
C11_RowsIndependent ==
    pc \in {"match", "update"} =>
        \A i \in 1..Len(df) :
            df[i] = IF i <= idx THEN MatchOf(df[i].Company_Name)
                    ELSE NewRow(df[i].Company_Name)

C11_Witness ==
    /\ pc = "update"
    /\ idx = 2
    /\ Len(license_df) > 0
    /\ df[1].Company_Name # df[2].Company_Name
    /\ Unmatched(df[1])
    /\ ~Unmatched(df[2])
    /\ df[2] = MatchOf(df[2].Company_Name)

(***************************************************************************)
(* Properties of normalize_company_name (SpecNormalize)                    *)
(***************************************************************************)
\* C6: normalize_company_name is idempotent: normalizing the normalized form
\* of any input gives the normalized form unchanged.
C6_Idempotent ==
    pc = "return" => ret.twice = ret.once

BobsOneWord ==
    <<"B", "O", "B", "S", " ", "P", "L", "U", "M", "B", "I", "N", "G", " ",
      "I", "N", "C">>
BobsTwoWords ==
    <<"B", "O", "B", " ", "S", " ", "P", "L", "U", "M", "B", "I", "N", "G", " ",
      "I", "N", "C">>

\* C7 as stated: normalize_company_name("Bob's Plumbing, Inc.") returns
\* "BOBS PLUMBING INC", the possessive staying one word.
C7_BobsStaysOneWord ==
    (pc = "return" /\ arg = BobsPlumbingInc) => ret.once = BobsOneWord

\* C7 as amended: normalize_company_name("Bob's Plumbing, Inc.") returns
\* "BOB S PLUMBING INC": the name is upper-cased, each punctuation character
\* is replaced by a blank and whitespace is collapsed, so the possessive
\* splits into two words.
C7_BobsSplitsInTwo ==
    (pc = "return" /\ arg = BobsPlumbingInc) => ret.once = BobsTwoWords

C7_Witness == pc = "return" /\ arg = BobsPlumbingInc

(***************************************************************************)
(* Properties of fuzzy_match_companies (SpecScore)                         *)
(***************************************************************************)
NineTenths == [n |-> 9, d |-> 10]

\* C3: fuzzy_match_companies returns score 1.0 if and only if the two names
\* have identical normalized forms.
C3_ExactIffIdentical ==
    pc = "return" => ((ret.score = One) <=> (ret.norm_permit = ret.norm_license))

\* C5: the score is symmetric: fuzzy_match_companies(a, b) and
\* fuzzy_match_companies(b, a) return the same match flag and the same score.
C5_Symmetric ==
    (pc = "return" /\ arg[1] # NaN) =>
        fuzzy_match_companies(arg[2], arg[1])
            = [is_match |-> ret.is_match, score |-> ret.score]

\* C8: if the normalized forms of the two names differ and one is a substring
\* of the other, fuzzy_match_companies reports a match with a score of at
\* least 0.9 and below 1.0.
C8_ContainmentBoost ==
    (/\ pc = "return"
     /\ ret.norm_permit # ret.norm_license
     /\ \/ IsSubstring(ret.norm_permit, ret.norm_license)
        \/ IsSubstring(ret.norm_license, ret.norm_permit))
    => /\ ret.is_match
       /\ GreaterEq(ret.score, NineTenths)
       /\ Less(ret.score, One)

C8_Witness ==
    /\ pc = "return"
    /\ ret.norm_license # <<>>
    /\ ret.norm_permit # ret.norm_license
    /\ IsSubstring(ret.norm_license, ret.norm_permit)
    /\ ret.is_match
    /\ ret.score = NineTenths

\* the words of a normalized name that are not legal-entity tokens
NonCoreWords(norm) ==
    SelectSeq(str_split(norm),
              LAMBDA w : \A k \in 1..Len(core_words) : w # core_words[k])

\* C9: the core-name fallback removes the legal-entity tokens only where they
\* stand as whole words, so the words of a core name are the words of the
\* normalized name that are not tokens (CO inside COSTCO is left intact).
C9_WholeWordsOnly ==
    (pc = "return" /\ ret.permit_core # NaN) =>
        /\ str_split(ret.permit_core) = NonCoreWords(ret.norm_permit)
        /\ str_split(ret.license_core) = NonCoreWords(ret.norm_license)

\* every score the call computed
ComputedScores(r) ==
    ({r.seq_ratio, r.similarity, r.core_similarity} \ {NoScore})
        \cup (IF r.norm_permit = r.norm_license THEN {One} ELSE {})

\* the scores the call computed, less a core-name ratio below 0.9
KeptScores(r) ==
    ({r.seq_ratio, r.similarity} \ {NoScore})
        \cup (IF r.core_similarity # NoScore /\ GreaterEq(r.core_similarity, NineTenths)
              THEN {r.core_similarity} ELSE {})
        \cup (IF r.norm_permit = r.norm_license THEN {One} ELSE {})

\* C10 as stated: the returned score is the largest of the scores computed for
\* the pair, the core-name ratio included whenever it was computed.
C10_LargestComputed ==
    pc = "return" => ret.score = MaxOf(ComputedScores(ret))

\* C10 as amended: the returned score is the largest of the exact-equality
\* score, the sequence ratio, the containment-boosted ratio and the core-name
\* ratio when that ratio is at least 0.9; a core-name ratio below 0.9 is
\* dropped, also when it is larger than the other scores.
C10_LargestKept ==
    pc = "return" => ret.score = MaxOf(KeptScores(ret))

C10_Witness ==
    /\ pc = "return"
    /\ ret.path = "core_rejected"
    /\ Greater(ret.core_similarity, ret.similarity)
    /\ ret.score = ret.similarity
    /\ str_split(ret.permit_core) = NonCoreWords(ret.norm_permit)
    /\ str_split(ret.license_core) = NonCoreWords(ret.norm_license)

(***************************************************************************)
(* Properties of generate_email (SpecEmail)                                *)
(***************************************************************************)
\* the domain candidate of a company name is too short or on the deny-list
GenericDomain(company_name) ==
    \/ Len(domain_candidate(company_name)) < 3
    \/ domain_candidate(company_name)
           \in { <<"c", "e", "n", "t", "e", "r">>, <<"p", "o", "i", "n", "t">>,
                 <<"u", "r", "b", "a", "n">>, <<"c", "i", "t", "y">> }

\* the contact person contains trust, estate, llc or inc, in any letter case
ContainsEntityWord(contact_person) ==
    \E word \in { <<"t", "r", "u", "s", "t">>, <<"e", "s", "t", "a", "t", "e">>,
                  <<"l", "l", "c">>, <<"i", "n", "c">> } :
        IsSubstring(word, str_lower(contact_person))

\* C19: generate_email returns no email whenever the domain candidate left
\* after suffix stripping is shorter than 3 characters or is one of center,
\* point, urban, city, and whenever the contact person contains trust,
\* estate, llc or inc, whatever the number of words in the contact person.
C19_RejectsGenericAndEntities ==
    (/\ pc = "return"
     /\ arg[1] # NaN
     /\ arg[2] # NaN
     /\ GenericDomain(arg[1]) \/ ContainsEntityWord(arg[2]))
    => ret.email = NoneVal

\* first.last@domain.com, from the first and the last word of the contact
\* person, lower-cased
FirstLastAt(contact_person, domain) ==
    LET words == str_split(contact_person)
    IN  as_text(str_lower(words[1]) \o <<".">> \o str_lower(words[Len(words)])
                    \o <<"@">> \o domain \o <<".", "c", "o", "m">>)

InfoAt(domain) ==
    as_text(<<"i", "n", "f", "o", "@">> \o domain \o <<".", "c", "o", "m">>)

\* C20 as stated: when generation is not rejected, generate_email returns
\* first.last@domain.com if the contact person has at least two words, and
\* info@domain.com in every other case, including a one-word or missing
\* contact person.
C20_PersonalElseInfo ==
    (/\ pc = "return"
     /\ arg[1] # NaN
     /\ ~GenericDomain(arg[1])
     /\ arg[2] # NaN => ~ContainsEntityWord(arg[2]))
    => ret.email =
           IF arg[2] # NaN /\ Len(str_split(arg[2])) >= 2
           THEN FirstLastAt(arg[2], domain_candidate(arg[1]))
           ELSE InfoAt(domain_candidate(arg[1]))

\* C20 as amended: when generation is not rejected and the contact person is
\* present, generate_email returns first.last@domain.com if the contact person
\* has at least two words and info@domain.com if it has fewer; when the
\* contact person is missing it returns no email.
C20_PersonalElseInfoIfPresent ==
    (/\ pc = "return"
     /\ arg[1] # NaN
     /\ ~GenericDomain(arg[1])
     /\ arg[2] # NaN => ~ContainsEntityWord(arg[2]))
    => ret.email =
           IF arg[2] = NaN THEN NoneVal
           ELSE IF Len(str_split(arg[2])) >= 2
                THEN FirstLastAt(arg[2], domain_candidate(arg[1]))
                ELSE InfoAt(domain_candidate(arg[1]))

C20_Witness ==
    /\ pc = "return"
    /\ arg[1] = <<"A", "c", "m", "e", " ", "I", "n", "c", ".">>
    /\ arg[2] = <<"J", "o", " ", "P", "o", "e">>
    /\ ret.path = "personal"
    /\ ret.email = "jo.poe@acme.com"


\* C28: the domain candidate that generate_email uses in an emitted address
\* does not end with any of the listed suffix words, in whatever order such
\* words appear at the end of the company name.
C28_NoSuffixLeft ==
    (pc = "return" /\ ret.email # NoneVal) =>
        \A k \in 1..Len(suffixes) : ~EndsWith(ret.company_clean, suffixes[k])

(***************************************************************************)
(* Properties of the merged contact columns (SpecContacts)                 *)
(***************************************************************************)
\* lines 208-224 have run: the values of the contact columns are final
ContactsUpdated == pc \in {"sort", "save"}

\* the phone / email of the license record matched to a row, None without a
\* match or without the field
LicensePhoneOf(row) ==
    IF HasMatch(row.Company_Name)
    THEN license_df[FirstBest(row.Company_Name)].license_phone
    ELSE NoneVal
LicenseEmailOf(row) ==
    IF HasMatch(row.Company_Name)
    THEN license_df[FirstBest(row.Company_Name)].license_email
    ELSE NoneVal

\* what the earlier sources hold for a row
ExistingPhoneOf(row) == search_existing_contact_data(row.Company_Name).existing_phone
ExistingEmailOf(row) == search_existing_contact_data(row.Company_Name).existing_email
AddressPhoneOf(row) == extract_phone_from_address(row.Address)
GeneratedEmailOf(row) ==
    generate_email(row.Company_Name, row.Contact_Person, row.City)

\* the phone create_active_plumbers_with_contact assigns to a row
FirstStagePhoneOf(row) ==
    IF ExistingPhoneOf(row) # NoneVal THEN ExistingPhoneOf(row)
    ELSE AddressPhoneOf(row)

\* C12: whenever a permit row has a license match whose record carries a
\* phone, the final Phone_Number of that row equals the license phone,
\* whatever phone an earlier source had supplied.
C12_LicensePhoneWins ==
    ContactsUpdated =>
        \A i \in 1..Len(df) :
            LicensePhoneOf(df[i]) # NoneVal =>
                df[i].Phone_Number = LicensePhoneOf(df[i])

C12_Witness ==
    /\ ContactsUpdated
    /\ \E i \in 1..Len(df) :
           /\ FirstStagePhoneOf(df[i]) = "(612) 555-0199"
           /\ LicensePhoneOf(df[i]) # NoneVal
           /\ LicensePhoneOf(df[i]) # FirstStagePhoneOf(df[i])
           /\ df[i].Phone_Number = LicensePhoneOf(df[i])

\* C13: the final phone of each record is chosen by precedence independently
\* of the email: the matched license record's phone if it has one, otherwise
\* the existing-database phone, otherwise the phone extracted from the
\* address, otherwise empty; a row with no license match, or with a match
\* that carries only an email, keeps the phone of the first stage.
C13_PhonePrecedence ==
    ContactsUpdated =>
        \A i \in 1..Len(df) :
            df[i].Phone_Number =
                IF LicensePhoneOf(df[i]) # NoneVal THEN LicensePhoneOf(df[i])
                ELSE FirstStagePhoneOf(df[i])

\* C14: the final email of each record is the matched license record's email
\* if it has one, otherwise the existing-database email, otherwise the
\* generated email, otherwise empty; a generated email never replaces an email
\* supplied by the license record or by the existing database.
C14_EmailPrecedence ==
    ContactsUpdated =>
        \A i \in 1..Len(df) :
            df[i].Email =
                IF LicenseEmailOf(df[i]) # NoneVal THEN LicenseEmailOf(df[i])
                ELSE IF ExistingEmailOf(df[i]) # NoneVal THEN ExistingEmailOf(df[i])
                ELSE GeneratedEmailOf(df[i])

C14_Witness ==
    /\ ContactsUpdated
    /\ \E i \in 1..Len(df) :
           /\ GeneratedEmailOf(df[i]) = "jo.poe@acost.com"
           /\ LicenseEmailOf(df[i]) = "b@costco.com"
           /\ df[i].Email = "b@costco.com"

\* the rank of a source in the precedence of the merge, 0 for no source
SourceRank(source) ==
    IF source = "Licensed Data" THEN 4
    ELSE IF source = "Existing Database" THEN 3
    ELSE IF source = "Extracted from Address" THEN 2
    ELSE IF source = "Generated" THEN 1
    ELSE 0

\* the source that supplied the final phone of a row, None for no phone
PhoneSourceOf(row) ==
    IF row.Phone_Number = NoneVal THEN NoneVal
    ELSE IF row.Phone_Number = LicensePhoneOf(row) THEN "Licensed Data"
    ELSE IF row.Phone_Number = ExistingPhoneOf(row) THEN "Existing Database"
    ELSE "Extracted from Address"

\* the source that supplied the final email of a row, None for no email
EmailSourceOf(row) ==
    IF row.Email = NoneVal THEN NoneVal
    ELSE IF row.Email = LicenseEmailOf(row) THEN "Licensed Data"
    ELSE IF row.Email = ExistingEmailOf(row) THEN "Existing Database"
    ELSE "Generated"

\* C15: in every final record, Contact_Info_Source names the
\* highest-precedence source among those that actually supplied the record's
\* final phone or final email; a record whose final phone and email are both
\* empty has no source.
C15_SourceIsHighestContributor ==
    ContactsUpdated =>
        \A i \in 1..Len(df) :
            df[i].Contact_Info_Source =
                IF SourceRank(PhoneSourceOf(df[i])) >= SourceRank(EmailSourceOf(df[i]))
                THEN PhoneSourceOf(df[i])
                ELSE EmailSourceOf(df[i])

\* C16: in every record of the final output, Contact_Confidence is determined
\* by Contact_Info_Source alone: Licensed Data and Existing Database give
\* High, Extracted from Address gives Medium, Generated gives Low, and no
\* source gives None (the text 'None', or a missing value once the contacts
\* file has been read back).
C16_ConfidenceFromSource ==
    ContactsUpdated =>
        \A i \in 1..Len(df) :
            LET source == df[i].Contact_Info_Source
                confidence == df[i].Contact_Confidence
            IN  /\ source \in {"Licensed Data", "Existing Database"}
                       => confidence = "High"
                /\ source = "Extracted from Address" => confidence = "Medium"
                /\ source = "Generated" => confidence = "Low"
                /\ source = NoneVal => confidence \in {NoneLabel, NoneVal}
                /\ source \in {"Licensed Data", "Existing Database",
                               "Extracted from Address", "Generated", NoneVal}

C16_Witness ==
    /\ ContactsUpdated
    /\ \E i \in 1..Len(df) :
           /\ AddressPhoneOf(df[i]) # NoneVal
           /\ contact_confidence(contact_row(RawRow(df[i].Company_Name,
                  df[i].Contact_Person, df[i].Address)).Contact_Info_Source) = "Medium"
           /\ df[i].Contact_Info_Source = "Licensed Data"
           /\ df[i].Contact_Confidence = "High"

\* C17: no phone is ever generated: in every record, after either pipeline
\* stage, Contact_Info_Source = Generated implies that Phone_Number is empty.
C17_NoGeneratedPhone ==
    \A i \in 1..Len(df) :
        df[i].Contact_Info_Source = "Generated" => df[i].Phone_Number = NoneVal

C17_Witness ==
    /\ ContactsUpdated
    /\ \E i \in 1..Len(df) :
           /\ df[i].Contact_Info_Source = "Generated"
           /\ df[i].Email = "jo.poe@acost.com"
           /\ df[i].Phone_Number = NoneVal
           /\ AddressPhoneOf(df[i]) = NoneVal

\* C18: a final record whose only contact data is an email produced by
\* generate_email (no phone, no license or existing-database email) is tagged
\* with source Generated and confidence Low.
C18_GeneratedOnlyIsLow ==
    ContactsUpdated =>
        \A i \in 1..Len(df) :
            (/\ df[i].Phone_Number = NoneVal
             /\ df[i].Email # NoneVal
             /\ df[i].Email = GeneratedEmailOf(df[i])
             /\ LicenseEmailOf(df[i]) = NoneVal
             /\ ExistingEmailOf(df[i]) = NoneVal)
            => /\ df[i].Contact_Info_Source = "Generated"
               /\ df[i].Contact_Confidence = "Low"

\* ---------------------------------------------------------------------
\* Rows without a usable company name

\* C25: a permit row whose company name is missing or normalizes to the
\* empty string is never matched to any license record: once the loop has
\* processed it, it carries no matched license company and no score.
C25_EmptyNameNeverMatched ==
    \A i \in 1..idx :
        normalize_company_name(df[i].Company_Name) = <<>> => Unmatched(df[i])

\* ---------------------------------------------------------------------
\* The counters of the matching loop

\* the rows the loop has matched so far
MatchedRows == match_stats.exact_matches + match_stats.fuzzy_matches

\* C27: at every point of the matching loop exact_matches + fuzzy_matches +
\* no_matches equals the number of permit rows processed so far; after the
\* loop phone_added and email_added are each at most the number of matched
\* rows and their sum is at least the number of matched rows.
C27_CountersAddUp ==
    /\ MatchedRows + match_stats.no_matches = idx
    /\ idx = Len(df) =>
          /\ match_stats.phone_added <= MatchedRows
          /\ match_stats.email_added <= MatchedRows
          /\ match_stats.phone_added + match_stats.email_added >= MatchedRows

\* the loop has ended with one row matched to a record that has both a
\* phone and an email, and one row left without a match
C27_Witness ==
    /\ idx = Len(df)
    /\ idx = 2
    /\ match_stats.no_matches = 1
    /\ MatchedRows = 1
    /\ match_stats.phone_added = 1
    /\ match_stats.email_added = 1

\* ---------------------------------------------------------------------
\* Licensed Data and the recorded match

\* C26: a final record has Contact_Info_Source = Licensed Data if and only
\* if a license match was recorded for it (Matched_License_Company is
\* non-empty), and every such record has Contact_Confidence = High; a row
\* for which the license list holds no match has empty
\* Matched_License_Company, Match_Confidence, License_Phone and
\* License_Email.
C26_LicensedIffMatched ==
    ContactsUpdated =>
        \A i \in 1..Len(df) :
            /\ df[i].Contact_Info_Source = "Licensed Data"
                   <=> df[i].Matched_License_Company # NaN
            /\ df[i].Matched_License_Company # NaN
                   => df[i].Contact_Confidence = "High"
            /\ ~HasMatch(df[i].Company_Name) =>
                   /\ Unmatched(df[i])
                   /\ df[i].License_Phone = NoneVal
                   /\ df[i].License_Email = NoneVal

\* a row labelled Generated by the first stage is matched to a license
\* record and ends as Licensed Data / High
C26_Witness ==
    /\ ContactsUpdated
    /\ \E i \in 1..Len(df) :
           /\ contact_row(RawRow(df[i].Company_Name, df[i].Contact_Person,
                                 df[i].Address)).Contact_Info_Source = "Generated"
           /\ df[i].Matched_License_Company # NaN
           /\ df[i].License_Email # NoneVal
           /\ df[i].Contact_Info_Source = "Licensed Data"
           /\ df[i].Contact_Confidence = "High"

(***************************************************************************)
(* Properties of the output files (SpecOutput)                             *)
(***************************************************************************)
\* both files have been written
OutputsWritten == pc = "done"

\* the positions of the main output whose record has a phone
WithPhone(main) == {i \in 1..Len(main) : main[i].Phone_Number # NoneVal}

\* f picks the records of ready out of main, in the order of main
PicksInOrder(f, ready, main) ==
    /\ \A j, k \in 1..Len(ready) : j < k => f[j] < f[k]
    /\ \A j \in 1..Len(ready) : ready[j] = main[f[j]]

\* ready holds exactly the records of main at the positions kept
ExactlyTheRows(ready, main, kept) ==
    /\ Len(ready) = Cardinality(kept)
    /\ \E f \in [1..Len(ready) -> kept] : PicksInOrder(f, ready, main)

\* C23: the call-ready output contains exactly the records of the main
\* output whose final Phone_Number is non-empty, in the same relative order
\* and with the same field values.
C23_CallReadyIsPhoneRows ==
    OutputsWritten =>
        ExactlyTheRows(ret.call_ready, ret.main, WithPhone(ret.main))

\* three records were written, two of them with a phone and one, with an
\* email only, left out of the call-ready file
C23_Witness ==
    /\ OutputsWritten
    /\ Len(ret.main) = 3
    /\ Len(ret.call_ready) = 2
    /\ ret.main[3].Phone_Number = NoneVal
    /\ ret.main[3].Email # NoneVal

\* the contact group of a record: both, phone only, email only, neither
ContactGroup(row) ==
    IF row.Phone_Number # NoneVal /\ row.Email # NoneVal THEN 1
    ELSE IF row.Phone_Number # NoneVal THEN 2
    ELSE IF row.Email # NoneVal THEN 3
    ELSE 4

\* the record at i may stand before the record at j
InOutputOrder(main, i, j) ==
    /\ ContactGroup(main[i]) <= ContactGroup(main[j])
    /\ ContactGroup(main[i]) = ContactGroup(main[j])
           => main[i].Total_Permits >= main[j].Total_Permits

\* C30: in the main output, records with both phone and email precede
\* records with only a phone, which precede records with only an email,
\* which precede records with neither; within each group the records are in
\* non-increasing order of Total_Permits.
C30_GroupsThenPermits ==
    OutputsWritten =>
        \A i, j \in 1..Len(ret.main) : i < j => InOutputOrder(ret.main, i, j)

\* the main output holds a record with phone and email and few permits
\* before two records with a phone only, the one with more permits first
C30_Witness ==
    /\ OutputsWritten
    /\ Len(ret.main) = 3
    /\ ContactGroup(ret.main[1]) = 1
    /\ ContactGroup(ret.main[2]) = 2
    /\ ContactGroup(ret.main[3]) = 2
    /\ ret.main[1].Total_Permits < ret.main[2].Total_Permits
    /\ ret.main[2].Total_Permits > ret.main[3].Total_Permits

(***************************************************************************)
(* Properties of the activity levels (SpecActivity)                        *)
(***************************************************************************)
\* the level that the labels state for d whole days
StatedLevel(d) ==
    IF d < 30 THEN "Very Active (< 30 days)"
    ELSE IF d <= 90 THEN "Active (30-90 days)"
    ELSE IF d <= 180 THEN "Moderate (90-180 days)"
    ELSE IF d <= 365 THEN "Low (180-365 days)"
    ELSE "Inactive (> 1 year)"

\* C24: each applicant whose last permit date is known, d >= 0 whole days
\* ago, gets exactly one activity level, as the labels state: Very Active
\* for d < 30, Active for 30 <= d <= 90, Moderate for 90 < d <= 180, Low for
\* 180 < d <= 365, Inactive for d > 365; an applicant whose last permit date
\* is unparseable gets none of the five levels, and the run goes on.
C24_LevelsAsLabelled ==
    pc = "return" =>
        ret.Activity_Level =
            IF arg.parsed THEN StatedLevel(arg.days_ago) ELSE NoLevel

(***************************************************************************)
(* Properties of the merged applicants file (SpecMerge)                    *)
(***************************************************************************)
\* no row of the contacts file has the applicant's name, upper-cased and
\* trimmed
WithoutContact(applicant) ==
    \A k \in 1..Len(arg.contacts_df) :
        str_strip(str_upper(arg.contacts_df[k].Company_Name))
            # str_strip(str_upper(applicant.applicant_name))

EmptyContact(row) ==
    /\ row.Phone_Number = ""
    /\ row.Email = ""
    /\ row.Contact_Person = ""
    /\ row.Contact_Info_Source = NoneLabel
    /\ row.Contact_Confidence = NoneLabel

\* C29: merge_contractor_contacts produces exactly one output row per
\* applicant row, also when two contact records have company names that are
\* equal after upper-casing and trimming; an applicant with no contact
\* record gets empty phone, email and contact person, and source and
\* confidence None.
C29_OneRowPerApplicant ==
    pc = "return" =>
        /\ Len(ret) = Len(arg.applicants_df)
        /\ \A i \in 1..Len(ret) :
               /\ ret[i].applicant_name = arg.applicants_df[i].applicant_name
               /\ WithoutContact(arg.applicants_df[i]) => EmptyContact(ret[i])

(***************************************************************************)
(* Properties of the license directory extractor (SpecLicenses)            *)
(***************************************************************************)
\* the first characters of the line that are not blank are L101
StartsWithMarker(line) ==
    \E i \in 1..Len(line) :
        /\ \A k \in 1..(i - 1) : line[k] = " "
        /\ StartsWithAt(line, i, <<"L", "1", "0", "1">>)

HeaderLine(line) ==
    /\ IsSubstring(<<"L", "i", "c", "e", "n", "s", "e", " ", "T", "y", "p", "e">>, line)
    /\ IsSubstring(<<"A", "p", "p", "l", "i", "c", "a", "n", "t", " ", "N", "a", "m", "e">>,
                   line)

\* the step has appended a record to licenses
Appended == Len(ret'.licenses) = Len(ret.licenses) + 1

\* the record that the step has appended
NewRecord == ret'.licenses[Len(ret'.licenses)]

\* the records of before the step are still there, in their places
EarlierKept == SubSeq(ret'.licenses, 1, Len(ret.licenses)) = ret.licenses

\* the step on line leaves licenses alone or appends one record, and a
\* record only for a license line with a name and a phone or an email
RecordOnlyFrom(line) ==
    /\ ret'.licenses = ret.licenses \/ (Appended /\ EarlierKept)
    /\ Appended =>
           /\ ~HeaderLine(line)
           /\ StartsWithMarker(line)
           /\ NewRecord.license_company # <<>>
           /\ NewRecord.license_phone # NoneVal \/ NewRecord.license_email # NoneVal
    /\ (~StartsWithMarker(line) \/ ~IsSubstring(APPROVED, line))
           => ret'.licenses = ret.licenses
    /\ pc' \in {"lines", "returned"}

\* C21: every record returned by extract_license_data_from_pdf comes from a
\* non-header line that starts with the marker L101 (blanks before it
\* aside), has a non-empty company name and has a phone or an email; lines
\* without the marker, and marker lines in which no company name can be
\* located, yield no record and raise no error.
C21_RecordsFromLicenseLines == [][RecordOnlyFrom(arg[idx + 1])]_vars

\* a line of another license type, with APPROVED, a name and a phone, has
\* been passed over, and the license line behind it has given its record
C21_Witness ==
    /\ pc = "returned"
    /\ Len(arg) = 2
    /\ ~StartsWithMarker(arg[1])
    /\ IsSubstring(APPROVED, arg[1])
    /\ phone_match(arg[1]) # NoMatch
    /\ ret.licenses = <<[license_company |-> <<"X", "Y", " ", "I", "N", "C">>,
                         license_phone |-> "612-555-1212",
                         license_email |-> "a@xy.com"]>>

\* the text of the line behind the first APPROVED, without outer blanks
BehindApproved(line) ==
    str_strip(SubSeq(line, str_find(line, APPROVED) + 9, Len(line)))

\* where the name ends in text: at the street address, else at the phone,
\* else at the email as the line writes it, else at the end
StatedNameEnd(text, phone, email) ==
    IF address_match(text) >= 0 THEN address_match(text)
    ELSE IF phone # NoMatch /\ IsSubstring(phone, text) THEN str_find(text, phone)
    ELSE IF email # NoMatch /\ IsSubstring(email, text) THEN str_find(text, email)
    ELSE Len(text)

\* the whitespace-collapsed text between APPROVED and the end of the name
StatedName(line) ==
    collapse_from(
        str_strip(SubSeq(BehindApproved(line), 1,
                         StatedNameEnd(BehindApproved(line), phone_match(line),
                                       email_match(line)))), 1)

\* the email up to and with its @
EmailHead(email) == SubSeq(email, 1, str_find(email, <<"@">>) + 1)

\* name holds the phone, or the head of the email in whatever letter case
HoldsContact(name, phone, email) ==
    \/ phone # NoMatch /\ IsSubstring(phone, name)
    \/ email # NoMatch /\ IsSubstring(str_lower(EmailHead(email)), str_lower(name))

NameAsStated(line) ==
    Appended =>
        /\ NewRecord.license_company = StatedName(line)
        /\ ~HoldsContact(NewRecord.license_company, phone_match(line),
                         email_match(line))

\* C22: for every emitted license record the company name is the
\* whitespace-collapsed text between APPROVED and the first of: a
\* street-address pattern, else the extracted phone, else the extracted
\* email, else the end of the line; so the company name never contains any
\* part of the record's extracted phone or email, whatever the letter case
\* of the email in the line.
C22_NameBeforeContact == [][NameAsStated(arg[idx + 1])]_vars

====
